---- MODULE Spec2Model ----
(***************************************************************************)
(* A model of scripts/update_catalog.py: the enrichment cache              *)
(* (update_product_cache, is_entry_stale, fetch_amazon_product), the       *)
(* product builder, the grouping engine, the document patcher and main.    *)
(*                                                                         *)
(* Python strings are sequences of one-character strings, so that strip,   *)
(* the price regular expression, the thousands formatting and the          *)
(* lexicographic comparison of identifiers are computed, not assumed.      *)
(* Python None is None where an object (a dict, a timestamp, a page        *)
(* element) is expected and NoStr where a string is expected.  A dict is   *)
(* a sequence of <<key, value>> pairs with distinct keys, in insertion     *)
(* order.                                                                  *)
(***************************************************************************)
EXTENDS Integers, Sequences, FiniteSets, TLC

None == [none |-> TRUE]
NoStr == <<"None">>

\* ------------------------------------------------------------------ bounds
\* Longest identifier list handed to one call of update_product_cache.
MaxAsins == 2
\* Successful fetches in one behaviour of the cache specification.
MaxFetches == 1
\* Hours the clock may run beyond its start.
MaxClockHours == 82
\* Longest product list handed to group_and_sort.
MaxProducts == 3
\* Most pieces a document is put together from.
MaxDocLen == 4
\* Most rows of the spreadsheet.
MaxRows == 2
\* Most entries of a curated section.
MaxEntries == 3
\* Most divs inside a region a locator is applied to.
MaxInnerDivs == 3

\* ------------------------------------------------------------ Python basics
\* Code points of the characters the model uses (str comparison is by code point).
CodePoint(c) ==
    CASE c = " " -> 32
      [] c = "," -> 44
      [] c = "0" -> 48 [] c = "1" -> 49 [] c = "2" -> 50 [] c = "3" -> 51
      [] c = "4" -> 52 [] c = "5" -> 53 [] c = "6" -> 54 [] c = "7" -> 55
      [] c = "8" -> 56 [] c = "9" -> 57
      [] c = "A" -> 65 [] c = "B" -> 66 [] c = "C" -> 67
      [] OTHER -> 200

\* a < b for Python str: lexicographic by code point, a proper prefix is smaller.
RECURSIVE StrLess(_, _)
StrLess(a, b) ==
    IF b = <<>> THEN FALSE
    ELSE IF a = <<>> THEN TRUE
    ELSE IF CodePoint(Head(a)) # CodePoint(Head(b))
         THEN CodePoint(Head(a)) < CodePoint(Head(b))
    ELSE StrLess(Tail(a), Tail(b))

\* str.strip(): leading and trailing blanks removed.
RECURSIVE LStrip(_)
LStrip(s) == IF s # <<>> /\ Head(s) = " " THEN LStrip(Tail(s)) ELSE s

RECURSIVE RStrip(_)
RStrip(s) ==
    IF s # <<>> /\ s[Len(s)] = " " THEN RStrip(SubSeq(s, 1, Len(s) - 1)) ELSE s

Strip(s) == RStrip(LStrip(s))

\* dict operations on a sequence of <<key, value>> pairs.
DictKeys(d) == {d[i][1] : i \in 1..Len(d)}

\* d.get(k): the value, or None.
DictGet(d, k) ==
    IF k \in DictKeys(d)
    THEN LET i == CHOOSE j \in 1..Len(d) : d[j][1] = k IN d[i][2]
    ELSE None

\* d[k] = v: an existing key keeps its position, a new key goes last.
DictSet(d, k, v) ==
    IF k \in DictKeys(d)
    THEN [i \in 1..Len(d) |-> IF d[i][1] = k THEN <<k, v>> ELSE d[i]]
    ELSE Append(d, <<k, v>>)

\* sorted(d.items()): keys are distinct, so the order is the order of the keys.
RECURSIVE InsertByKey(_, _)
InsertByKey(sorted, item) ==
    IF sorted = <<>> THEN <<item>>
    ELSE IF StrLess(item[1], Head(sorted)[1]) THEN <<item>> \o sorted
    ELSE <<Head(sorted)>> \o InsertByKey(Tail(sorted), item)

\* A write that keeps the dict's insertion order.
InsertionOrderItems(d) == d

RECURSIVE SortedItems(_)
SortedItems(d) ==
    IF d = <<>> THEN <<>>
    ELSE InsertByKey(SortedItems(SubSeq(d, 1, Len(d) - 1)), d[Len(d)])

\* --------------------------------------------------------------- prices
YEN == "YEN"
FULLWIDTH_YEN == "FULLWIDTH_YEN"

IsDigit(c) == c \in {"0", "1", "2", "3", "4", "5", "6", "7", "8", "9"}

DigitValue(c) == CodePoint(c) - 48

DigitChar(n) == <<"0", "1", "2", "3", "4", "5", "6", "7", "8", "9">>[n + 1]

\* str(n) for n >= 0.
RECURSIVE IntToStr(_)
IntToStr(n) ==
    IF n < 10 THEN <<DigitChar(n)>>
    ELSE IntToStr(n \div 10) \o <<DigitChar(n % 10)>>

\* int(digits) for a string of decimal digits.
RECURSIVE StrToInt(_)
StrToInt(s) ==
    IF s = <<>> THEN 0
    ELSE 10 * StrToInt(SubSeq(s, 1, Len(s) - 1)) + DigitValue(s[Len(s)])

\* f"{n:,}": groups of three digits separated by commas.
RECURSIVE FormatThousands(_)
FormatThousands(n) ==
    IF n < 1000 THEN IntToStr(n)
    ELSE FormatThousands(n \div 1000) \o <<",">>
         \o <<DigitChar((n % 1000) \div 100), DigitChar((n % 100) \div 10),
              DigitChar(n % 10)>>

\* The text matched by re.search(r"(\d[\d,]*)", value), or NoStr.
RECURSIVE DigitRun(_)
DigitRun(s) ==
    IF s = <<>> \/ ~(IsDigit(Head(s)) \/ Head(s) = ",") THEN <<>>
    ELSE <<Head(s)>> \o DigitRun(Tail(s))

RECURSIVE FirstPriceMatch(_)
FirstPriceMatch(s) ==
    IF s = <<>> THEN NoStr
    ELSE IF IsDigit(Head(s)) THEN DigitRun(s)
    ELSE FirstPriceMatch(Tail(s))

RemoveCommas(s) == SelectSeq(s, LAMBDA c : c # ",")

sanitize_price(price_str) ==
    IF price_str = NoStr \/ price_str = <<>> THEN NoStr
    ELSE LET value == [i \in 1..Len(price_str) |->
                          IF price_str[i] = FULLWIDTH_YEN THEN YEN ELSE price_str[i]]
             match == FirstPriceMatch(value)
         IN IF match = NoStr THEN NoStr
            ELSE <<YEN>> \o FormatThousands(StrToInt(RemoveCommas(match)))

price_to_int(price_str) ==
    LET digits == SelectSeq(price_str, IsDigit)
    IN IF digits = <<>> THEN 0 ELSE StrToInt(digits)

\* ------------------------------------------------------------------ time
\* The clock counts tenths of a second of UTC, so that FETCH_DELAY (1.2 s)
\* is a whole number of ticks.
TicksPerSecond == 10
TicksPerHour == 3600 * TicksPerSecond
FETCH_DELAY == 12
CACHE_MAX_AGE_HOURS == 72

\* time.strftime("%Y-%m-%dT%H:%M:%S") at UTC instant t on a machine whose
\* local time is UTC + offset hours: the local calendar time, to the second,
\* without any zone.  A timestamp string is the record of its calendar
\* second (naive) and of whether its fields are zero padded.
Strftime(t, offset) ==
    [naive |-> (t \div TicksPerSecond) + offset * 3600, padded |-> TRUE]

UNPARSABLE == [unparsable |-> TRUE]

\* datetime.strptime(s, "%Y-%m-%dT%H:%M:%S"): whether it raises ValueError,
\* and the naive calendar second it returns otherwise.  strptime accepts
\* fields without zero padding.
StrptimeRaises(s) == s = UNPARSABLE

Strptime(s) == s.naive

\* is_entry_stale(entry) when datetime.utcnow() is the instant t.
is_entry_stale(entry, t) ==
    IF entry.fetched_at = None THEN TRUE
    ELSE IF StrptimeRaises(entry.fetched_at) THEN TRUE
    ELSE t - Strptime(entry.fetched_at) * TicksPerSecond
             >= CACHE_MAX_AGE_HOURS * TicksPerHour

\* ------------------------------------------------- fetch_amazon_product
Url(asin) == <<"https://www.amazon.co.jp/dp/">> \o asin

\* Python truthiness of an optional string.
Truthy(s) == s # NoStr /\ s # <<>>

\* The first span.a-offscreen whose text sanitize_price accepts, or NoStr.
RECURSIVE FirstCleanPrice(_)
FirstCleanPrice(spans) ==
    IF spans = <<>> THEN NoStr
    ELSE LET cleaned == sanitize_price(Head(spans))
         IN IF Truthy(cleaned) THEN cleaned ELSE FirstCleanPrice(Tail(spans))

\* The image of the page: #landingImage (data-old-hires or src), else og:image.
PageImage(page) ==
    LET landing == IF page.landing = None THEN NoStr
                   ELSE IF Truthy(page.landing.hires) THEN page.landing.hires
                   ELSE page.landing.src
    IN IF Truthy(landing) THEN landing ELSE page.og

\* An exception that leaves the function.
RAISED == [raised |-> TRUE]

\* A fetch that does not give up when the page has no image.
fetch_keeping_imageless(asin, response, t, offset) ==
    IF response.kind = "RequestException" THEN None
    ELSE IF response.status_code # 200 THEN None
    ELSE [asin |-> asin,
          url |-> Url(asin),
          title |-> response.title,
          price |-> FirstCleanPrice(response.spans),
          image |-> PageImage(response),
          fetched_at |-> Strftime(t, offset),
          status_code |-> response.status_code]

\* fetch_amazon_product(asin) when requests.get answers `response` at instant t
\* on a machine whose local time is UTC + offset hours.  The result is the
\* new cache entry, or None.  A RequestException is caught.
fetch_amazon_product(asin, response, t, offset) ==
    IF response.kind = "RequestException" THEN None
    ELSE IF response.status_code # 200 THEN None
    ELSE IF ~Truthy(PageImage(response)) THEN None
    ELSE [asin |-> asin,
          url |-> Url(asin),
          title |-> response.title,
          price |-> FirstCleanPrice(response.spans),
          image |-> PageImage(response),
          fetched_at |-> Strftime(t, offset),
          status_code |-> response.status_code]

\* ------------------------------------------------- update_product_cache
\* A cache hit that does not look at the image.
CacheHitIgnoringImage(asin, entry, force_set, t) ==
    /\ asin \notin force_set
    /\ entry # None
    /\ Truthy(entry.price)
    /\ ~is_entry_stale(entry, t)

\* The condition of the `continue` at lines 224-231: a cache hit.
CacheHit(asin, entry, force_set, t) ==
    /\ asin \notin force_set
    /\ entry # None
    /\ Truthy(entry.price)
    /\ Truthy(entry.image)
    /\ ~is_entry_stale(entry, t)

\* force_set = {asin.strip() for asin in force_refresh or [] if asin}
ForceSet(force_refresh) == {Strip(a) : a \in {x \in force_refresh : x # <<>>}}

\* The body of `for asin in asins`, from item i on.  st is the state of the
\* call: the dict cache, the clock, the flag updated, and a log with one
\* record per iteration that passed `if not asin: continue`.  A fetch that
\* raises ends the call (raised).
RECURSIVE UpdateLoop(_, _, _, _, _, _)
UpdateLoop(asins, i, force_set, site, offset, st) ==
    IF i > Len(asins) \/ st.raised THEN st
    ELSE LET asin == Strip(asins[i])
             entry == DictGet(st.cache, asin)
         IN IF asin = <<>> THEN UpdateLoop(asins, i + 1, force_set, site, offset, st)
            ELSE IF CacheHit(asin, entry, force_set, st.now)
            THEN UpdateLoop(asins, i + 1, force_set, site, offset,
                     [st EXCEPT !.log = Append(@, [asin |-> asin, entry |-> entry,
                                                   at |-> st.now, skipped |-> TRUE,
                                                   fetched |-> None])])
            ELSE LET fetched == fetch_amazon_product(asin, site[asin], st.now, offset)
                     item == [asin |-> asin, entry |-> entry, at |-> st.now,
                              skipped |-> FALSE, fetched |-> fetched]
                 IN IF fetched = RAISED
                    THEN [st EXCEPT !.raised = TRUE, !.log = Append(@, item)]
                    ELSE IF fetched # None
                    THEN UpdateLoop(asins, i + 1, force_set, site, offset,
                             [st EXCEPT !.cache = DictSet(@, asin, fetched),
                                        !.updated = TRUE,
                                        !.now = @ + FETCH_DELAY,
                                        !.log = Append(@, item)])
                    ELSE UpdateLoop(asins, i + 1, force_set, site, offset,
                             [st EXCEPT !.log = Append(@, item)])

\* json.loads of the cache file, or {} when the file does not exist.  A file
\* is [exists, content], content a dict.
LoadCache(file) == IF file.exists THEN file.content ELSE <<>>

\* update_product_cache(asins, force_refresh) started at instant t with the
\* cache file `file`: the state of the call after the loop, with the file as
\* the call leaves it and the mapping it returns.
update_product_cache(asins, force_refresh, file, site, offset, t) ==
    LET st == UpdateLoop(asins, 1, ForceSet(force_refresh), site, offset,
                  [cache |-> LoadCache(file), now |-> t, updated |-> FALSE,
                   log |-> <<>>, raised |-> FALSE])
        ordered == SortedItems(st.cache)
    IN [raised |-> st.raised,
        log |-> st.log,
        now |-> st.now,
        written |-> ~st.raised /\ st.updated,
        file |-> IF ~st.raised /\ st.updated
                 THEN [exists |-> TRUE, content |-> ordered] ELSE file,
        returned |-> IF st.updated THEN ordered ELSE st.cache]

\* ------------------------------------------------------ the product builder
\* Optional[float]: None, a NaN (an empty spreadsheet cell read by pandas), or
\* a number of tenths.
NoFloat == [kind |-> "None"]
NaN == [kind |-> "nan"]
Float(tenths) == [kind |-> "float", tenths |-> tenths]

\* bool(x) of an Optional[float]: None and 0.0 are false, NaN is true.
FloatTruthy(x) == x.kind = "nan" \/ (x.kind = "float" /\ x.tenths # 0)

\* entry.get(field) where entry = cache.get(asin, {}).
EntryGet(entry, field) == IF entry = None THEN NoStr ELSE entry[field]

\* Product.image_key: the image up to its first "._".
RECURSIVE image_key(_)
image_key(image) ==
    IF image = <<>> \/ Head(image) = "._" THEN <<>>
    ELSE <<Head(image)>> \o image_key(Tail(image))

\* A builder that fills in what it cannot resolve.
build_product_with_placeholders(asin, name, cache, fallback_price, fallback_image) ==
    LET entry == DictGet(cache, asin)
        cached == sanitize_price(EntryGet(entry, "price"))
        use_fallback == ~Truthy(cached) /\ FloatTruthy(fallback_price)
        price == IF use_fallback
                 THEN <<YEN>> \o FormatThousands(fallback_price.tenths \div 10)
                 ELSE cached
        image == IF Truthy(EntryGet(entry, "image")) THEN EntryGet(entry, "image")
                 ELSE fallback_image
    IN IF use_fallback /\ fallback_price.kind = "nan" THEN RAISED
       ELSE [asin |-> asin,
             name |-> IF Truthy(name) THEN name
                      ELSE IF Truthy(EntryGet(entry, "title")) THEN EntryGet(entry, "title")
                      ELSE asin,
             price |-> IF Truthy(price) THEN price ELSE <<YEN, "0">>,
             price_value |-> IF Truthy(price) THEN price_to_int(price) ELSE 0,
             image |-> IF Truthy(image) THEN image ELSE <<>>,
             url |-> IF entry = None THEN Url(asin) ELSE entry.url]

\* build_product_with_fallbacks: a Product, None, or RAISED (int() of a NaN
\* raises ValueError).
build_product_with_fallbacks(asin, name, cache, fallback_price, fallback_image) ==
    LET entry == DictGet(cache, asin)
        cached == sanitize_price(EntryGet(entry, "price"))
        use_fallback == ~Truthy(cached) /\ FloatTruthy(fallback_price)
        price == IF use_fallback
                 THEN <<YEN>> \o FormatThousands(fallback_price.tenths \div 10)
                 ELSE cached
        image == IF Truthy(EntryGet(entry, "image")) THEN EntryGet(entry, "image")
                 ELSE fallback_image
    IN IF use_fallback /\ fallback_price.kind = "nan" THEN RAISED
       ELSE IF ~Truthy(price) THEN None
       ELSE IF ~Truthy(image) THEN None
       ELSE [asin |-> asin,
             name |-> IF Truthy(name) THEN name
                      ELSE IF Truthy(EntryGet(entry, "title")) THEN EntryGet(entry, "title")
                      ELSE asin,
             price |-> price,
             price_value |-> price_to_int(price),
             image |-> image,
             url |-> IF entry = None THEN Url(asin) ELSE entry.url]

build_product(asin, name, cache, fallback_price) ==
    build_product_with_fallbacks(asin, name, cache, fallback_price, NoStr)

\* ------------------------------------------------------------ group_and_sort
\* A sort that puts the cheaper product first.
ProductBeforeAscending(p, q) ==
    \/ p.price_value < q.price_value
    \/ p.price_value = q.price_value /\ StrLess(p.asin, q.asin)

\* key(p) < key(q) for key = (-price_value, asin).
ProductBefore(p, q) ==
    \/ p.price_value > q.price_value
    \/ p.price_value = q.price_value /\ StrLess(p.asin, q.asin)

\* list.sort is stable: an item goes before the first item it is before.
RECURSIVE InsertProduct(_, _)
InsertProduct(sorted, p) ==
    IF sorted = <<>> THEN <<p>>
    ELSE IF ProductBefore(p, Head(sorted)) THEN <<p>> \o sorted
    ELSE <<Head(sorted)>> \o InsertProduct(Tail(sorted), p)

RECURSIVE SortProducts(_)
SortProducts(items) ==
    IF items = <<>> THEN <<>>
    ELSE InsertProduct(SortProducts(SubSeq(items, 1, Len(items) - 1)), items[Len(items)])

RECURSIVE MaxPrice(_)
MaxPrice(items) ==
    IF Len(items) = 1 THEN items[1].price_value
    ELSE LET rest == MaxPrice(Tail(items))
         IN IF Head(items).price_value >= rest THEN Head(items).price_value ELSE rest

\* The groups compared by their largest price alone.
GroupBeforeByPrice(g, h) == g[1] > h[1]

\* key(g) < key(h) for key = (-max price, first member's asin); g = <<max, items>>.
GroupBefore(g, h) ==
    \/ g[1] > h[1]
    \/ g[1] = h[1] /\ StrLess(g[2][1].asin, h[2][1].asin)

RECURSIVE InsertGroup(_, _)
InsertGroup(sorted, g) ==
    IF sorted = <<>> THEN <<g>>
    ELSE IF GroupBefore(g, Head(sorted)) THEN <<g>> \o sorted
    ELSE <<Head(sorted)>> \o InsertGroup(Tail(sorted), g)

RECURSIVE SortGroups(_)
SortGroups(ordered) ==
    IF ordered = <<>> THEN <<>>
    ELSE InsertGroup(SortGroups(SubSeq(ordered, 1, Len(ordered) - 1)), ordered[Len(ordered)])

\* groups[product.image_key].append(product), over the products in order: a
\* dict from image key to list, in order of first appearance.
RECURSIVE GroupByImageKey(_, _)
GroupByImageKey(products, groups) ==
    IF products = <<>> THEN groups
    ELSE LET p == Head(products)
             k == image_key(p.image)
             had == IF k \in DictKeys(groups) THEN DictGet(groups, k) ELSE <<>>
         IN GroupByImageKey(Tail(products), DictSet(groups, k, Append(had, p)))

RECURSIVE Flatten(_)
Flatten(lists) == IF lists = <<>> THEN <<>> ELSE Head(lists) \o Flatten(Tail(lists))

\* group_and_sort(products): [flattened, grouped].
group_and_sort(products) ==
    LET groups == GroupByImageKey(products, <<>>)
        ordered == SortGroups([i \in 1..Len(groups) |->
                       LET items == SortProducts(groups[i][2])
                       IN <<MaxPrice(items), items>>])
        grouped == [i \in 1..Len(ordered) |-> ordered[i][2]]
    IN [flattened |-> Flatten(grouped), grouped |-> grouped]

\* ------------------------------------------------------------- documents
\* A text is a sequence of chunks; a tag, an attribute value, a newline and a
\* single space are chunks of their own, so that every substring the code
\* searches for is a run of whole chunks.
Marker(class_name) == <<"<div class=\"", class_name, "\"", ">">>

\* The chunks that begin with "<div".
DivOpenChunks == {"<div class=\"", "<div>"}

\* text[a:b]
Slice(text, a, b) == SubSeq(text, a + 1, b)

\* text.find(sub, start): the least index, or -1.
Find(text, sub, start) ==
    LET hits == {i \in start..(Len(text) - Len(sub)) : Slice(text, i, i + Len(sub)) = sub}
    IN IF hits = {} THEN -1 ELSE CHOOSE i \in hits : \A j \in hits : i <= j

\* text.find("<div", start)
FindDivOpen(text, start) ==
    LET hits == {i \in start..(Len(text) - 1) : text[i + 1] \in DivOpenChunks}
    IN IF hits = {} THEN -1 ELSE CHOOSE i \in hits : \A j \in hits : i <= j

\* The greatest of a set of indices.
Greatest(hits) ==
    LET mirrored == {0 - i : i \in hits}
    IN 0 - (CHOOSE m \in mirrored : \A n \in mirrored : m <= n)

\* text.rfind("<div", 0, end)
RFindDivOpen(text, end) ==
    LET hits == {i \in 0..(end - 1) : text[i + 1] \in DivOpenChunks}
    IN IF hits = {} THEN -1 ELSE Greatest(hits)

\* text.rfind(chunk, 0, end)
RFind(text, chunk, end) ==
    LET hits == {i \in 0..(end - 1) : text[i + 1] = chunk}
    IN IF hits = {} THEN -1 ELSE Greatest(hits)

\* The for loop of find_div_bounds: where the occurrence-th marker starts, or -1.
RECURSIVE MarkerPosition(_, _, _, _)
MarkerPosition(html_text, marker, occurrence, search_start) ==
    LET position == Find(html_text, marker, search_start)
    IN IF position = -1 THEN -1
       ELSE IF occurrence = 1 THEN position
       ELSE MarkerPosition(html_text, marker, occurrence - 1, position + Len(marker))

\* A depth scan that takes the end of the text for the close it misses.
RECURSIVE MatchingCloseOrEnd(_, _, _)
MatchingCloseOrEnd(html_text, idx, depth) ==
    IF depth = 0 THEN idx
    ELSE LET next_open == FindDivOpen(html_text, idx)
             next_close == Find(html_text, <<"</div>">>, idx)
         IN IF next_close = -1 THEN Len(html_text)
            ELSE IF next_open # -1 /\ next_open < next_close
                 THEN MatchingCloseOrEnd(html_text, next_open + 1, depth + 1)
                 ELSE MatchingCloseOrEnd(html_text, next_close + 1, depth - 1)

\* The while loop of find_div_bounds and find_grid_bounds: the index after
\* the close that takes depth to zero, or -1 where the code raises. Past the
\* "<div" of a chunk there is no tag left in that chunk.
RECURSIVE MatchingClose(_, _, _)
MatchingClose(html_text, idx, depth) ==
    IF depth = 0 THEN idx
    ELSE LET next_open == FindDivOpen(html_text, idx)
             next_close == Find(html_text, <<"</div>">>, idx)
         IN IF next_close = -1 THEN -1
            ELSE IF next_open # -1 /\ next_open < next_close
                 THEN MatchingClose(html_text, next_open + 1, depth + 1)
                 ELSE MatchingClose(html_text, next_close + 1, depth - 1)

\* A locator that takes the first close after the marker for the end.
find_div_bounds_next_close(html_text, marker, occurrence) ==
    LET position == MarkerPosition(html_text, marker, occurrence, 0)
        content_start == position + Len(marker)
        next_close == Find(html_text, <<"</div>">>, content_start)
    IN IF position = -1 \/ next_close = -1 THEN RAISED
       ELSE [raised |-> FALSE, position |-> position,
             content_start |-> content_start, end |-> next_close + 1]

\* find_div_bounds: (position, content_start, end), or RAISED for ValueError.
find_div_bounds(html_text, marker, occurrence) ==
    LET position == MarkerPosition(html_text, marker, occurrence, 0)
        content_start == position + Len(marker)
        idx == MatchingClose(html_text, content_start, 1)
    IN IF position = -1 \/ idx = -1 THEN RAISED
       ELSE [raised |-> FALSE, position |-> position,
             content_start |-> content_start, end |-> idx]

RECURSIVE IndentFrom(_, _, _)
IndentFrom(html_text, idx, position) ==
    IF idx < position /\ html_text[idx + 1] \in {" ", "\t"}
    THEN <<html_text[idx + 1]>> \o IndentFrom(html_text, idx + 1, position)
    ELSE <<>>

detect_indent(html_text, position) ==
    LET newline_index == RFind(html_text, "\n", position)
    IN IF newline_index = -1 THEN <<>>
       ELSE IndentFrom(html_text, newline_index + 1, position)

\* block.split("\n")
RECURSIVE SplitLines(_)
SplitLines(text) ==
    LET newline == Find(text, <<"\n">>, 0)
    IN IF newline = -1 THEN <<text>>
       ELSE <<Slice(text, 0, newline)>> \o SplitLines(Slice(text, newline + 1, Len(text)))

\* "\n".join(lines)
RECURSIVE JoinLines(_)
JoinLines(lines) ==
    IF lines = <<>> THEN <<>>
    ELSE IF Len(lines) = 1 THEN lines[1]
    ELSE lines[1] \o <<"\n">> \o JoinLines(Tail(lines))

\* [prefix + line for block in blocks for line in block.split("\n")]
RECURSIVE IndentedLines(_, _)
IndentedLines(blocks, prefix) ==
    IF blocks = <<>> THEN <<>>
    ELSE LET lines == SplitLines(Head(blocks))
         IN [i \in 1..Len(lines) |-> prefix \o lines[i]]
            \o IndentedLines(Tail(blocks), prefix)

\* replace_div_inner: [raised, html].
replace_div_inner(html_text, class_name, blocks, occurrence) ==
    LET bounds == find_div_bounds(html_text, Marker(class_name), occurrence)
    IN IF bounds.raised THEN RAISED
       ELSE LET indent == detect_indent(html_text, bounds.position)
                inner_indent == indent \o <<" ", " ">>
                closing_start == bounds.end - 1
                new_inner ==
                    IF blocks # <<>>
                    THEN <<"\n">> \o JoinLines(IndentedLines(blocks, inner_indent))
                            \o <<"\n">> \o indent
                    ELSE <<"\n">> \o indent
            IN [raised |-> FALSE,
                html |-> Slice(html_text, 0, bounds.content_start) \o new_inner
                            \o Slice(html_text, closing_start, Len(html_text))]

\* find_grid_bounds: (grid_start, content_start, grid_end), or RAISED.
find_grid_bounds(html_text, page_id) ==
    LET id_marker == <<"id=\"", page_id, "\"">>
        id_pos == Find(html_text, id_marker, 0)
        div_start == RFindDivOpen(html_text, id_pos)
        grid_marker == Marker("products-grid")
        grid_start == Find(html_text, grid_marker, div_start)
        content_start == grid_start + Len(grid_marker)
        idx == MatchingClose(html_text, content_start, 1)
    IN IF id_pos = -1 THEN RAISED
       ELSE IF div_start = -1 THEN RAISED
       ELSE IF grid_start = -1 THEN RAISED
       ELSE IF idx = -1 THEN RAISED
       ELSE [raised |-> FALSE, position |-> grid_start,
             content_start |-> content_start, end |-> idx]

\* replace_products_grid: [raised, html].
replace_products_grid(html_text, page_id, cards) ==
    LET bounds == find_grid_bounds(html_text, page_id)
    IN IF bounds.raised THEN RAISED
       ELSE LET inner == <<"\n">> \o JoinLines(IndentedLines(cards, <<" ", " ">>)) \o <<"\n">>
                new_section == Slice(html_text, bounds.position, bounds.content_start)
                                  \o inner \o <<"</div>">>
            IN [raised |-> FALSE,
                html |-> Slice(html_text, 0, bounds.position) \o new_section
                            \o Slice(html_text, bounds.end, Len(html_text))]

\* The style block of ensure_css_snippet, one chunk for each of its rules.
CSS_SNIPPET ==
    <<"        .coming-soon-card {...}\n\n",
      "        .coming-soon-card .coming-soon-label {...}\n\n",
      "        .coming-soon-card .product-price {...}\n\n",
      "        .memorial-theme .coming-soon-card {...}\n\n",
      "        .memorial-theme .coming-soon-card .coming-soon-label {...}\n\n",
      "        .memorial-theme .coming-soon-card .product-price {...}\n">>

CSS_MARKER == "/* Memorial Theme - Elegant & Delicate Style (Light Silver) */"

\* text.replace(chunk, replacement): every occurrence, from the left.
RECURSIVE ReplaceAll(_, _, _)
ReplaceAll(text, chunk, replacement) ==
    LET position == Find(text, <<chunk>>, 0)
    IN IF position = -1 THEN text
       ELSE Slice(text, 0, position) \o replacement
               \o ReplaceAll(Slice(text, position + 1, Len(text)), chunk, replacement)

\* The style block put before every anchor, whether or not it is there already.
ensure_css_snippet_unguarded(html_text) ==
    ReplaceAll(html_text, CSS_MARKER, CSS_SNIPPET \o <<"\n", "        ", CSS_MARKER>>)

ensure_css_snippet(html_text) ==
    IF Find(html_text, CSS_SNIPPET, 0) # -1 THEN html_text
    ELSE IF Find(html_text, <<CSS_MARKER>>, 0) = -1 THEN html_text
    ELSE ReplaceAll(html_text, CSS_MARKER, CSS_SNIPPET \o <<"\n", "        ", CSS_MARKER>>)

\* ------------------------------------------------------------------ main
\* An empty spreadsheet cell, as pandas gives it where the code expects a str.
NaNCell == <<"float('nan')">>

\* A character outside ASCII is the chunk "U+xxxx" of its code point;
\* encode("unicode_escape") turns it into the six characters \uxxxx.
EscapeCodePoint(c) ==
    CASE c = "U+3057" -> "\\u3057"
      [] c = "U+306a" -> "\\u306a"
      [] c = "U+30a2" -> "\\u30a2"
      [] c = "U+30a3" -> "\\u30a3"
      [] c = "U+30a4" -> "\\u30a4"
      [] c = "U+30af" -> "\\u30af"
      [] c = "U+30b5" -> "\\u30b5"
      [] c = "U+30b9" -> "\\u30b9"
      [] c = "U+30ba" -> "\\u30ba"
      [] c = "U+30bb" -> "\\u30bb"
      [] c = "U+30bf" -> "\\u30bf"
      [] c = "U+30c3" -> "\\u30c3"
      [] c = "U+30c6" -> "\\u30c6"
      [] c = "U+30c7" -> "\\u30c7"
      [] c = "U+30c8" -> "\\u30c8"
      [] c = "U+30cd" -> "\\u30cd"
      [] c = "U+30ce" -> "\\u30ce"
      [] c = "U+30d4" -> "\\u30d4"
      [] c = "U+30da" -> "\\u30da"
      [] c = "U+30e0" -> "\\u30e0"
      [] c = "U+30e1" -> "\\u30e1"
      [] c = "U+30ec" -> "\\u30ec"
      [] c = "U+30f3" -> "\\u30f3"
      [] c = "U+30fc" -> "\\u30fc"
      [] c = "U+5e03" -> "\\u5e03"
      [] c = "U+6839" -> "\\u6839"
      [] c = "U+8ca1" -> "\\u8ca1"
      [] c = "U+907a" -> "\\u907a"
      [] c = "U+9aa8" -> "\\u9aa8"
      [] OTHER -> c

unicode_escape(text) == [i \in 1..Len(text) |-> EscapeCodePoint(text[i])]

CATEGORY_LOOKUP ==
 <<
    <<<<"\\u30ec", "\\u30c7", "\\u30a3", "\\u30fc", "\\u30b9", "\\u30d4", "\\u30a2", "\\u30b9">>,
      [key |-> <<"ladies_earrings">>, page |-> "ladies-earrings-page", card |-> "item"]>>,
    <<<<"\\u30cd", "\\u30c3", "\\u30af", "\\u30ec", "\\u30b9">>,
      [key |-> <<"ladies_necklaces">>, page |-> "ladies-necklaces-page", card |-> "item"]>>,
    <<<<"\\u30bb", "\\u30c3", "\\u30c8", "\\u30a2", "\\u30a4", "\\u30c6", "\\u30e0">>,
      [key |-> <<"set_items">>, page |-> "set-items-page", card |-> "item"]>>,
    <<<<"\\u30da", "\\u30a2", "\\u30cd", "\\u30c3", "\\u30af", "\\u30ec", "\\u30b9">>,
      [key |-> <<"pair_necklaces">>, page |-> "pair-necklaces-page", card |-> "item"]>>,
    <<<<"\\u30e1", "\\u30f3", "\\u30ba", "\\u30d4", "\\u30a2", "\\u30b9">>,
      [key |-> <<"mens_earrings">>, page |-> "mens-earrings-page", card |-> "item"]>>,
    <<<<"\\u30e1", "\\u30f3", "\\u30ba", "\\u30cd", "\\u30c3", "\\u30af", "\\u30ec", "\\u30b9">>,
      [key |-> <<"mens_necklaces">>, page |-> "mens-necklaces-page", card |-> "item"]>>,
    <<<<"\\u8ca1", "\\u5e03">>,
      [key |-> <<"mens_wallets">>, page |-> "mens-wallets-page", card |-> "item"]>>,
    <<<<"\\u30cd", "\\u30af", "\\u30bf", "\\u30a4", "\\u30d4", "\\u30f3">>,
      [key |-> <<"mens_tiepins">>, page |-> "mens-tiepins-page", card |-> "item"]>>,
    <<<<"\\u907a", "\\u9aa8", "\\u30cd", "\\u30c3", "\\u30af", "\\u30ec", "\\u30b9">>,
      [key |-> <<"memorial_items">>, page |-> "memorial-page", card |-> "memorial"]>>,
    <<<<"\\u907a", "\\u9aa8", "\\u6839", "\\u30af", "\\u30ec", "\\u30b9">>,
      [key |-> <<"memorial_items">>, page |-> "memorial-page", card |-> "memorial"]>>,
    <<<<"a", "l", "i", "v", "a", "l", "u", "x", "e">>,
      [key |-> <<"aliva_luxe">>, page |-> "aliva-luxe-page", card |-> "product"]>>
 >>

\* CATEGORY_META.setdefault(meta["key"], meta) over CATEGORY_LOOKUP.values().
RECURSIVE SetDefaults(_, _)
SetDefaults(metas, d) ==
    IF metas = <<>> THEN d
    ELSE SetDefaults(Tail(metas),
             IF Head(metas).key \in DictKeys(d) THEN d
             ELSE Append(d, <<Head(metas).key, Head(metas)>>))

CATEGORY_META == SetDefaults([i \in 1..Len(CATEGORY_LOOKUP) |-> CATEGORY_LOOKUP[i][2]], <<>>)

normalise_category(value) ==
    IF value = NaNCell THEN None ELSE DictGet(CATEGORY_LOOKUP, unicode_escape(value))

\* str.lower() on the letters the model uses.
LowerChar(c) ==
    CASE c = "A" -> "a" [] c = "B" -> "b" [] c = "C" -> "c" [] c = "N" -> "n"
      [] OTHER -> c

Lower(s) == [i \in 1..Len(s) |-> LowerChar(s[i])]

\* The literals float() takes among the texts the model uses: an optional
\* sign, digits, and at most one digit after a point.
Unsigned(s) == IF s # <<>> /\ Head(s) \in {"-", "+"} THEN Tail(s) ELSE s

AllDigits(s) == s # <<>> /\ \A i \in 1..Len(s) : IsDigit(s[i])

IsFloatLiteral(s) ==
    LET u == Unsigned(s)
    IN \/ AllDigits(u)
       \/ /\ Len(u) >= 3 /\ u[Len(u) - 1] = "." /\ IsDigit(u[Len(u)])
          /\ AllDigits(SubSeq(u, 1, Len(u) - 2))

\* float(s), in tenths.
FloatOf(s) ==
    LET u == Unsigned(s)
        magnitude == IF AllDigits(u) THEN 10 * StrToInt(u)
                     ELSE 10 * StrToInt(SubSeq(u, 1, Len(u) - 2)) + DigitValue(u[Len(u)])
    IN IF Head(s) = "-" THEN 0 - magnitude ELSE magnitude

\* A stock cell: NaN, Float(tenths) or a str.
Text(s) == [kind |-> "str", text |-> s]

\* parse_stock, in tenths.
parse_stock(value) ==
    IF value.kind = "nan" THEN 10
    ELSE IF value.kind = "str"
    THEN LET s == Strip(value.text)
             lowered == Lower(s)
         IN IF s = <<>> THEN 0
            ELSE IF lowered \in {<<"n", "a">>, <<"n", "a", "n">>,
                                 <<"n", "o", "t", " ", "a", "n", "s", "w", "e", "r">>,
                                 <<"n", "o", "t", "a", "n", "s", "w", "e", "r", "e", "d">>,
                                 <<"n", "o", "t", "-", "a", "n", "s", "w", "e", "r", "e", "d">>}
            THEN 0
            ELSE IF s \in {<<"U+30ce", "U+30c3", "U+30c8", "U+30a2", "U+30f3", "U+30b5", "U+30fc">>,
                           <<"U+306a", "U+3057">>}
            THEN 0
            ELSE IF IsFloatLiteral(RemoveCommas(s)) THEN FloatOf(RemoveCommas(s))
            ELSE 0
    ELSE value.tenths

\* html.escape, character by character.
EscapeChar(c) ==
    CASE c = "&" -> "&amp;"
      [] c = "<" -> "&lt;"
      [] c = ">" -> "&gt;"
      [] c = "\"" -> "&quot;"
      [] c = "'" -> "&#x27;"
      [] OTHER -> c

html_escape(s) == [i \in 1..Len(s) |-> EscapeChar(s[i])]

\* One card of render_item_cards.
ItemCard(product, class_name) ==
    JoinLines(<<
        <<"<a class=\"", class_name, "\" href=\"">> \o html_escape(product.url)
            \o <<"\" rel=\"noopener noreferrer\" target=\"_blank\">">>,
        <<" ", " ">> \o Marker("item-image"),
        <<" ", " ", "<img alt=\"">> \o html_escape(product.name) \o <<"\" src=\"">>
            \o html_escape(product.image) \o <<"\"/>">>,
        <<" ", " ", "</div>">>,
        <<" ", " ">> \o Marker("item-info"),
        <<" ", " ">> \o Marker("item-price") \o product.price \o <<"</div>">>,
        <<" ", " ", "</div>">>,
        <<"</a>">> >>)

render_item_cards(products, class_name) ==
    [i \in 1..Len(products) |-> ItemCard(products[i], class_name)]

\* One card of render_product_cards.
ProductCard(product) ==
    JoinLines(<<
        <<"<a class=\"", "product-card", "\" href=\"">> \o html_escape(product.url)
            \o <<"\" target=\"_blank\">">>,
        <<" ", " ">> \o Marker("product-image"),
        <<" ", " ", "<img alt=\"">> \o html_escape(product.name) \o <<"\" src=\"">>
            \o html_escape(product.image) \o <<"\"/>">>,
        <<" ", " ", "</div>">>,
        <<" ", " ">> \o Marker("product-info"),
        <<" ", " ">> \o Marker("product-price") \o product.price \o <<"</div>">>,
        <<" ", " ", "</div>">>,
        <<"</a>">> >>)

render_product_cards(products) == [i \in 1..Len(products) |-> ProductCard(products[i])]

\* One card of render_memorial_placeholders.
PlaceholderCard ==
    JoinLines(<<
        Marker("product-card coming-soon-card"),
        <<" ", " ">> \o Marker("product-image"),
        <<" ", " ", "<div class=\"", "coming-soon-icon", "\"", " aria-hidden=\"true\">",
          "&#8987;", "</div>">>,
        <<" ", " ", "</div>">>,
        <<" ", " ">> \o Marker("product-info"),
        <<" ", " ">> \o Marker("coming-soon-label") \o <<"Coming Soon", "</div>">>,
        <<" ", " ", "</div>">>,
        <<"</div>">> >>)

render_memorial_placeholders(count) == [i \in 1..count |-> PlaceholderCard]

\* One card of render_ranking_items; str(order) of an int.
RankingCard(item) ==
    JoinLines(<<
        Marker("ranking-item"),
        <<" ", " ">> \o Marker("ranking-number") \o html_escape(IntToStr(item.order))
            \o <<"</div>">>,
        <<" ", " ", "<a class=\"", "ranking-link", "\" href=\"">>
            \o html_escape(item.product.url)
            \o <<"\" rel=\"noopener noreferrer\" target=\"_blank\">">>,
        <<" ", " ", " ", " ">> \o Marker("ranking-image"),
        <<" ", " ", " ", " ", "<img alt=\"">> \o html_escape(item.display_name)
            \o <<"\" src=\"">> \o html_escape(item.product.image) \o <<"\"/>">>,
        <<" ", " ", " ", " ", "</div>">>,
        <<" ", " ", " ", " ">> \o Marker("ranking-info"),
        <<" ", " ", " ", " ">> \o Marker("ranking-name") \o html_escape(item.display_name)
            \o <<"</div>">>,
        <<" ", " ", " ", " ">> \o Marker("ranking-price") \o item.product.price
            \o <<"</div>">>,
        <<" ", " ", " ", " ", "</div>">>,
        <<" ", " ", "</a>">>,
        <<"</div>">> >>)

render_ranking_items(items) == [i \in 1..Len(items) |-> RankingCard(items[i])]

\* One card of render_all_items.
AllItemsCard(item) ==
    JoinLines(<<
        <<"<a class=\"", "item-card", "\" href=\"">> \o html_escape(item.product.url)
            \o <<"\" rel=\"noopener noreferrer\" target=\"_blank\">">>,
        <<" ", " ">> \o Marker("item-image"),
        <<" ", " ", "<img alt=\"">> \o html_escape(item.display_name) \o <<"\" src=\"">>
            \o html_escape(item.product.image) \o <<"\"/>">>,
        <<" ", " ", "</div>">>,
        <<" ", " ">> \o Marker("item-info"),
        <<" ", " ">> \o Marker("item-name") \o html_escape(item.display_name)
            \o <<"</div>">>,
        <<" ", " ">> \o Marker("item-price") \o item.product.price \o <<"</div>">>,
        <<" ", " ", "</div>">>,
        <<"</a>">> >>)

render_all_items(items) == [i \in 1..Len(items) |-> AllItemsCard(items[i])]

\* load_specified_products: a file is [exists, valid, content].
load_specified_products(file) ==
    IF ~file.exists THEN <<>>
    ELSE IF ~file.valid THEN <<>>
    ELSE file.content

\* An "order" of a curated entry: absent, an int or a str.
NoOrder == [kind |-> "missing"]
IntOrder(n) == [kind |-> "int", value |-> n, text |-> <<>>]
StrOrder(s) == [kind |-> "str", value |-> 0, text |-> s]

\* item.get("order", 0) as a sort key.
OrderKey(entry) == IF entry.order.kind = "missing" THEN IntOrder(0) ELSE entry.order

\* sorted() raises TypeError when it has to compare an int with a str.
SortRaises(entries) ==
    \E i, j \in 1..Len(entries) : OrderKey(entries[i]).kind # OrderKey(entries[j]).kind

OrderBefore(a, b) ==
    IF OrderKey(a).kind = "int" THEN OrderKey(a).value < OrderKey(b).value
    ELSE StrLess(OrderKey(a).text, OrderKey(b).text)

RECURSIVE InsertEntry(_, _)
InsertEntry(sorted, entry) ==
    IF sorted = <<>> THEN <<entry>>
    ELSE IF OrderBefore(entry, Head(sorted)) THEN <<entry>> \o sorted
    ELSE <<Head(sorted)>> \o InsertEntry(Tail(sorted), entry)

\* sorted(entries, key=lambda item: item.get("order", 0)), stable.
RECURSIVE SortEntries(_)
SortEntries(entries) ==
    IF entries = <<>> THEN <<>>
    ELSE InsertEntry(SortEntries(SubSeq(entries, 1, Len(entries) - 1)), entries[Len(entries)])

\* int(entry.get("order", len(section) + 1)), len(section) + 1 on ValueError.
EntryOrder(entry, section) ==
    IF entry.order.kind = "int" THEN entry.order.value
    ELSE IF entry.order.kind = "str" /\ AllDigits(Strip(entry.order.text))
    THEN StrToInt(Strip(entry.order.text))
    ELSE Len(section) + 1

\* The body of `for entry in sorted(...)`.
RECURSIVE Section(_, _, _)
Section(entries, cache, section) ==
    IF entries = <<>> THEN section
    ELSE LET entry == Head(entries)
             asin == IF entry.asin = NoStr THEN <<>> ELSE Strip(entry.asin)
             product == build_product_with_fallbacks(asin, entry.name, cache, NoFloat,
                                                     entry.image_fallback)
         IN IF asin = <<>> \/ product = None
            THEN Section(Tail(entries), cache, section)
            ELSE Section(Tail(entries), cache,
                     Append(section,
                         [order |-> EntryOrder(entry, section),
                          display_name |-> IF Truthy(entry.name) THEN entry.name
                                           ELSE product.name,
                          product |-> product]))

\* The loop of prepare_specified_products over specified.items().
RECURSIVE Prepared(_, _)
Prepared(specified, cache) ==
    IF specified = <<>> THEN <<>>
    ELSE LET section == Section(SortEntries(Head(specified)[2]), cache, <<>>)
             rest == Prepared(Tail(specified), cache)
         IN IF section # <<>> THEN << <<Head(specified)[1], section>> >> \o rest ELSE rest

\* prepare_specified_products: [raised, prepared].
prepare_specified_products(specified, cache) ==
    IF \E i \in 1..Len(specified) : SortRaises(specified[i][2]) THEN RAISED
    ELSE [raised |-> FALSE, prepared |-> Prepared(specified, cache)]

\* --- main, lines 592-603: the raw records, one for every row.
Records(rows) ==
    [i \in 1..Len(rows) |->
        [asin |-> rows[i].asin, name |-> rows[i].name,
         price_excel |-> IF rows[i].price_excel.kind = "nan" THEN NoFloat
                         ELSE rows[i].price_excel,
         category_raw |-> rows[i].category, stock |-> rows[i].stock]]

\* --- lines 607-617
RECURSIVE ValidEntries(_)
ValidEntries(rows) ==
    IF rows = <<>> THEN <<>>
    ELSE LET row == Head(rows)
             meta == normalise_category(row.category)
             asin == Strip(row.asin)
         IN IF meta = None \/ parse_stock(row.stock) <= 0 \/ asin = <<>>
            THEN ValidEntries(Tail(rows))
            ELSE <<[meta |-> meta, asin |-> asin, row |-> row]>> \o ValidEntries(Tail(rows))

\* --- lines 619-626
SpecifiedAsins(specified_raw) ==
    {Strip(entry.asin) :
        entry \in {e \in UNION {{specified_raw[i][2][j] : j \in 1..Len(specified_raw[i][2])} :
                                   i \in 1..Len(specified_raw)} :
                      Truthy(e.asin)}}

FetchTargets(valid_entries, specified_raw) ==
    {valid_entries[i].asin : i \in 1..Len(valid_entries)}
    \cup {asin \in SpecifiedAsins(specified_raw) : asin # <<>>}

\* The orders in which a set can be iterated.
Orders(S) ==
    {order \in [1..Cardinality(S) -> S] :
        \A i, j \in 1..Cardinality(S) : i # j => order[i] # order[j]}

\* --- lines 632-636: [raised, compiled]; build_product raising ends main.
RECURSIVE Compile(_, _, _)
Compile(valid_entries, cache, compiled) ==
    IF valid_entries = <<>> THEN [raised |-> FALSE, compiled |-> compiled]
    ELSE LET entry == Head(valid_entries)
             key == entry.meta.key
             product == build_product(entry.asin, entry.row.name, cache,
                                      entry.row.price_excel)
             had == IF key \in DictKeys(compiled) THEN DictGet(compiled, key) ELSE <<>>
         IN IF product = RAISED THEN [raised |-> TRUE, compiled |-> compiled]
            ELSE IF product = None THEN Compile(Tail(valid_entries), cache, compiled)
            ELSE Compile(Tail(valid_entries), cache,
                         DictSet(compiled, key, Append(had, product)))

NoOutputs ==
    [raised |-> FALSE, compiled_serialisable |-> <<>>, grouped_serialisable |-> <<>>,
     price_lists |-> <<>>, price_status |-> <<>>, rendered_cards |-> <<>>]

StatusOf(p) == [asin |-> p.asin, price |-> p.price, has_price |-> TRUE, has_image |-> TRUE]

\* --- lines 646-668: the loop over CATEGORY_META.items().  html.escape of a
\* name that is a NaN raises AttributeError.
RECURSIVE CategoryOutputs(_, _, _)
CategoryOutputs(metas, compiled, out) ==
    IF metas = <<>> \/ out.raised THEN out
    ELSE LET key == Head(metas)[1]
             meta == Head(metas)[2]
             products == IF key \in DictKeys(compiled) THEN DictGet(compiled, key) ELSE <<>>
             sorted == group_and_sort(products)
             flattened == sorted.flattened
         IN IF meta.card = "memorial"
            THEN CategoryOutputs(Tail(metas), compiled,
                     [out EXCEPT !.compiled_serialisable = DictSet(@, key, <<>>),
                                 !.grouped_serialisable = DictSet(@, key, <<>>),
                                 !.price_lists = DictSet(@, key, <<>>),
                                 !.price_status = DictSet(@, key, <<>>),
                                 !.rendered_cards =
                                     DictSet(@, key, render_memorial_placeholders(6))])
            ELSE IF products = <<>> THEN CategoryOutputs(Tail(metas), compiled, out)
            ELSE IF \E i \in 1..Len(flattened) : flattened[i].name = NaNCell
            THEN [out EXCEPT !.raised = TRUE]
            ELSE CategoryOutputs(Tail(metas), compiled,
                     [out EXCEPT !.compiled_serialisable = DictSet(@, key, flattened),
                                 !.grouped_serialisable = DictSet(@, key, sorted.grouped),
                                 !.price_lists =
                                     DictSet(@, key, [i \in 1..Len(flattened) |->
                                                         flattened[i].price]),
                                 !.price_status =
                                     DictSet(@, key, [i \in 1..Len(flattened) |->
                                                         StatusOf(flattened[i])]),
                                 !.rendered_cards =
                                     DictSet(@, key,
                                         IF meta.card = "product"
                                         THEN render_product_cards(flattened)
                                         ELSE render_item_cards(flattened, "item-card"))])

\* --- lines 670-679
RECURSIVE SpecifiedStatus(_, _)
SpecifiedStatus(specified_prepared, price_status) ==
    IF specified_prepared = <<>> THEN price_status
    ELSE LET key == Head(specified_prepared)[1]
             items == Head(specified_prepared)[2]
         IN SpecifiedStatus(Tail(specified_prepared),
                DictSet(price_status, <<"specified_">> \o key,
                        [i \in 1..Len(items) |-> StatusOf(items[i].product)]))

\* try: html_text = replace...(html_text, ...) / except ValueError: the
\* text as it was.  A step records what was tried and what came of it.
Attempt(region, cards, html_text, r) ==
    [region |-> region, cards |-> cards, before |-> html_text, located |-> ~r.raised,
     after |-> IF r.raised THEN html_text ELSE r.html]

\* --- lines 687-694: [html, log]
RECURSIVE PatchGrids(_, _, _, _)
PatchGrids(metas, rendered_cards, html_text, log) ==
    IF metas = <<>> THEN [html |-> html_text, log |-> log]
    ELSE LET key == Head(metas)[1]
             meta == Head(metas)[2]
         IN IF key \notin DictKeys(rendered_cards)
            THEN PatchGrids(Tail(metas), rendered_cards, html_text, log)
            ELSE LET cards == DictGet(rendered_cards, key)
                     step == Attempt([kind |-> "grid", name |-> meta.page, occurrence |-> 1],
                                     cards, html_text,
                                     replace_products_grid(html_text, meta.page, cards))
                 IN IF cards = <<>>
                    THEN PatchGrids(Tail(metas), rendered_cards, html_text, log)
                    ELSE PatchGrids(Tail(metas), rendered_cards, step.after,
                                    Append(log, step))

\* The curated regions in the order main takes them: section, class, occurrence.
CuratedRegions ==
    << [section |-> <<"ladies_ranking">>, name |-> "ranking-scroll", occurrence |-> 1],
       [section |-> <<"mens_ranking">>, name |-> "ranking-scroll", occurrence |-> 2],
       [section |-> <<"ladies_all">>, name |-> "items-grid", occurrence |-> 1],
       [section |-> <<"mens_all">>, name |-> "items-grid", occurrence |-> 2] >>

\* --- lines 696-722: [html, log]
RECURSIVE PatchCurated(_, _, _, _)
PatchCurated(regions, specified_prepared, html_text, log) ==
    IF regions = <<>> THEN [html |-> html_text, log |-> log]
    ELSE LET region == Head(regions)
         IN IF region.section \notin DictKeys(specified_prepared)
            THEN PatchCurated(Tail(regions), specified_prepared, html_text, log)
            ELSE LET items == DictGet(specified_prepared, region.section)
                     cards == IF region.name = "ranking-scroll"
                              THEN render_ranking_items(items)
                              ELSE render_all_items(items)
                     step == Attempt([kind |-> "div", name |-> region.name,
                                      occurrence |-> region.occurrence],
                                     cards, html_text,
                                     replace_div_inner(html_text, region.name, cards,
                                                       region.occurrence))
                 IN PatchCurated(Tail(regions), specified_prepared, step.after,
                                 Append(log, step))

\* =================================================================== state
VARIABLES
    cacheFile,   \* assets/product_cache.json: [exists, content]
    now,         \* the UTC clock, in ticks
    tzOffset,    \* hours the machine's local time is ahead of UTC
    site,        \* what the remote site answers for each identifier
    fetches,     \* successful fetches so far
    call,        \* the last call of update_product_cache: its inputs and what it did
    probe,       \* the entry whose staleness is examined, and the verdicts on it
    build,       \* the last call of build_product_with_fallbacks and its result
    grouping,    \* the last call of group_and_sort and its result
    prepare,     \* the last call of prepare_specified_products and its result
    patch,       \* a document operation, its arguments, and the document it is applied to
    run          \* a run of main: its inputs, the files it wrote, what it did

cacheVars == <<cacheFile, site, fetches, call>>
clockVars == <<now, tzOffset>>
staleVars == <<probe>>
pureVars == <<build, grouping, prepare>>
docVars == <<patch>>
mainVars == <<run>>

vars == <<cacheVars, clockVars, staleVars, pureVars, docVars, mainVars>>

Keys == {<<"A">>, <<"B">>}

Img(asin) == <<"https://img/">> \o asin \o <<"._", "SX300", ".jpg">>

PagePrice == <<FULLWIDTH_YEN, "1", ",", "9", "8", "0">>

\* What requests.get can answer.
PageOk(asin) ==
    [kind |-> "http", status_code |-> 200,
     spans |-> << <<"-">>, PagePrice, <<YEN, "5">> >>,
     landing |-> [hires |-> NoStr, src |-> Img(asin)], og |-> NoStr,
     title |-> <<"T">>]

PageNoPrice(asin) ==
    [kind |-> "http", status_code |-> 200, spans |-> << <<"-">> >>,
     landing |-> None, og |-> Img(asin), title |-> NoStr]

PageNoImage ==
    [kind |-> "http", status_code |-> 200, spans |-> <<PagePrice>>,
     landing |-> [hires |-> NoStr, src |-> <<>>], og |-> NoStr, title |-> <<"T">>]

PageUnavailable ==
    [kind |-> "http", status_code |-> 503, spans |-> <<>>,
     landing |-> None, og |-> NoStr, title |-> NoStr]

PageTransportError ==
    [kind |-> "RequestException", status_code |-> 0, spans |-> <<>>,
     landing |-> None, og |-> NoStr, title |-> NoStr]

SiteUp == [k \in Keys |-> PageOk(k)]

Sites ==
    {[k \in Keys |-> IF k = <<"A">> THEN a ELSE PageOk(k)] :
        a \in {PageOk(<<"A">>), PageNoPrice(<<"A">>), PageNoImage,
               PageUnavailable, PageTransportError}}
    \cup {[k \in Keys |-> IF k = <<"A">> THEN PageOk(k) ELSE PageUnavailable]}

StartInstant == 80 * TicksPerHour

NoCall == [kind |-> "none"]
NoProbe == [kind |-> "none"]

CacheIdle == cacheFile = [exists |-> FALSE, content |-> <<>>] /\ site = SiteUp
               /\ fetches = 0 /\ call = NoCall
StaleIdle == probe = NoProbe
ClockIdle == now = StartInstant /\ tzOffset = 0
PureIdle == build = NoCall /\ grouping = NoCall /\ prepare = NoCall
DocIdle == patch = [op |-> "none"]
MainIdle == run = [status |-> "none"]

\* An entry with a price and an image.
Complete(entry) ==
    /\ entry # None
    /\ entry.price # NoStr /\ entry.price # <<>>
    /\ entry.image # NoStr /\ entry.image # <<>>

\* ------------------------------------------------ the cache specification
\* An entry an earlier run fetched `age` ticks before the start.
Earlier(asin, page, age, offset) ==
    fetch_amazon_product(asin, page, StartInstant - age, offset)

\* The cache files a run can find: none, or entries written by earlier runs
\* (71 h, 72 h, 73 h or 1 h old, with or without a price), or entries whose
\* image or timestamp was lost or edited by hand.
InitialCaches(offset) ==
    LET A == <<"A">>
        B == <<"B">>
        H == TicksPerHour
        okA(age) == Earlier(A, PageOk(A), age, offset)
        okB(age) == Earlier(B, PageOk(B), age, offset)
        file(d) == [exists |-> TRUE, content |-> d]
    IN { [exists |-> FALSE, content |-> <<>>],
         file(<< <<B, okB(71 * H)>> >>),
         file(<< <<A, okA(73 * H)>>, <<B, okB(H)>> >>),
         file(<< <<A, okA(72 * H)>> >>),
         file(<< <<A, Earlier(A, PageNoPrice(A), H, offset)>>, <<B, okB(H)>> >>),
         file(<< <<A, [okA(H) EXCEPT !.image = NoStr]>> >>),
         file(<< <<A, [okA(H) EXCEPT !.fetched_at = None]>> >>),
         file(<< <<A, [okA(H) EXCEPT !.fetched_at = UNPARSABLE]>>, <<B, okB(73 * H)>> >>),
         file(<< <<A, [okA(H) EXCEPT !.fetched_at.padded = FALSE]>> >>) }

TzOffsets == {-5, 0, 9}

\* The files of one entry of identifier A that has a price, an image and a
\* well-formed timestamp.
SoleEntryCaches(offset) ==
    {c \in InitialCaches(offset) :
        /\ c.exists
        /\ Len(c.content) = 1
        /\ c.content[1][1] = <<"A">>
        /\ Complete(c.content[1][2])
        /\ c.content[1][2].fetched_at \notin {None, UNPARSABLE}
        /\ c.content[1][2].fetched_at.padded}

\* On a machine nine hours ahead of UTC a run can find any of the cache files,
\* and the site answers every way it can to a run that finds no file or the
\* file whose one entry is 72 h old; on a machine at UTC a run finds no
\* file, that file, or one of the files of two entries, and a site that is up.
CacheInit ==
    /\ tzOffset \in {0, 9}
    /\ cacheFile \in IF tzOffset = 9 THEN InitialCaches(tzOffset)
                      ELSE {c \in InitialCaches(tzOffset) :
                               ~c.exists \/ Len(c.content) = 2 \/ c \in SoleEntryCaches(tzOffset)}
    /\ site \in IF tzOffset = 9 /\ (~cacheFile.exists \/ cacheFile \in SoleEntryCaches(tzOffset))
                 THEN Sites ELSE {SiteUp}
    /\ now = StartInstant
    /\ fetches = 0
    /\ call = NoCall
    /\ StaleIdle
    /\ PureIdle
    /\ DocIdle /\ MainIdle

RECURSIVE SeqsUpTo(_, _)
SeqsUpTo(S, n) ==
    IF n = 0 THEN {<<>>}
    ELSE LET shorter == SeqsUpTo(S, n - 1)
         IN shorter \cup {Append(q, x) : q \in shorter, x \in S}

\* The identifier lists of a call: up to MaxAsins identifiers, one of them
\* padded with blanks, possibly after a blank item.
RawAsins == {<<" ", "A">>, <<"B">>}
AsinLists ==
    LET lists == SeqsUpTo(RawAsins, MaxAsins)
    IN lists \cup {<<(<<" ">>)>> \o q : q \in lists}
ForceInputs == {{}, {<<>>, <<"A", " ">>}}

Succeeded(log) == {i \in 1..Len(log) : ~log[i].skipped /\ log[i].fetched # None}

\* One run of update_product_cache(asins, force_refresh).
UpdateProductCache ==
    \E asins \in AsinLists, force_refresh \in ForceInputs :
        \E r \in {update_product_cache(asins, force_refresh, cacheFile, site, tzOffset, now)} :
           /\ fetches + Cardinality(Succeeded(r.log)) <= MaxFetches
           /\ cacheFile' = r.file
           /\ now' = r.now
           /\ fetches' = fetches + Cardinality(Succeeded(r.log))
           /\ call' = [kind |-> "call", asins |-> asins, force_refresh |-> force_refresh,
                       before |-> cacheFile, started |-> now, log |-> r.log,
                       raised |-> r.raised, written |-> r.written,
                       returned |-> r.returned]
           /\ UNCHANGED <<tzOffset, site, staleVars, pureVars, docVars, mainVars>>

ClockStepHours == 73

\* Time passes between runs.
Tick ==
    /\ now + ClockStepHours * TicksPerHour <= StartInstant + MaxClockHours * TicksPerHour
    /\ now' = now + ClockStepHours * TicksPerHour
    /\ UNCHANGED <<cacheFile, tzOffset, site, fetches, call, staleVars, pureVars, docVars, mainVars>>

CacheNext == UpdateProductCache \/ Tick

SpecCache == CacheInit /\ [][CacheNext]_vars

\* ------------------------------------------------ claims on the cache
Attempted(log, k) == \E j \in 1..Len(log) : log[j].asin = k /\ ~log[j].skipped

\* The identifiers of the input that are not empty once stripped, in order.
Requested(asins) == SelectSeq([i \in 1..Len(asins) |-> Strip(asins[i])], LAMBDA a : a # <<>>)

Forced(force_refresh) == {Strip(a) : a \in force_refresh} \ {<<>>}

\* C1: in update_product_cache every non-empty identifier of the input is
\* looked at once, in order, and its fetch is skipped if and only if it is
\* not forced, the cache holds an entry for it, the entry has a price and an
\* image, and the entry is not stale; in every other case a fetch is attempted.
C1_SkipIffFreshCompleteUnforced ==
    call.kind = "call" =>
        /\ [j \in 1..Len(call.log) |-> call.log[j].asin] = Requested(call.asins)
        /\ \A j \in 1..Len(call.log) :
              LET it == call.log[j]
                  first == \A h \in 1..(j - 1) : call.log[h].asin # it.asin
              IN /\ first => it.entry = DictGet(LoadCache(call.before), it.asin)
                 /\ it.skipped <=>
                       /\ it.asin \notin Forced(call.force_refresh)
                       /\ Complete(it.entry)
                       /\ ~is_entry_stale(it.entry, it.at)

\* C1 witness: one call skipped an identifier and fetched another occurrence
\* whose entry was fresh and priced but had no image.
C1_Witness ==
    /\ call.kind = "call"
    /\ \E j \in 1..Len(call.log) : call.log[j].skipped
    /\ \E j \in 1..Len(call.log) :
          LET it == call.log[j]
          IN /\ ~it.skipped
             /\ it.entry # None
             /\ it.asin \notin Forced(call.force_refresh)
             /\ Truthy(it.entry.price) /\ ~Truthy(it.entry.image)
             /\ ~is_entry_stale(it.entry, it.at)

\* A fetch fails: transport error, a status other than 200, or no image.
FetchFails(page) ==
    \/ page.kind = "RequestException"
    \/ page.status_code # 200
    \/ /\ page.landing = None \/ (~Truthy(page.landing.hires) /\ ~Truthy(page.landing.src))
       /\ ~Truthy(page.og)

\* C3: a call of update_product_cache raises nothing, removes no key, and
\* changes the entry of an identifier (in the mapping it returns and in the
\* file) only if it attempted that identifier and the fetch did not fail.
C3_OnlySuccessfulFetchChangesEntry ==
    call.kind = "call" =>
        LET old == LoadCache(call.before)
            new == LoadCache(cacheFile)
        IN /\ ~call.raised
           /\ DictKeys(old) \subseteq DictKeys(call.returned)
           /\ DictKeys(old) \subseteq DictKeys(new)
           /\ \A k \in Keys :
                 (DictGet(call.returned, k) # DictGet(old, k) \/ DictGet(new, k) # DictGet(old, k))
                     => Attempted(call.log, k) /\ ~FetchFails(site[k])

\* C3 witness: a fetch was attempted for an identifier that had an entry, the
\* fetch failed, and the call ended.
C3_Witness ==
    /\ call.kind = "call"
    /\ \E k \in Keys :
          /\ Attempted(call.log, k)
          /\ FetchFails(site[k])
          /\ DictGet(LoadCache(call.before), k) # None
          /\ DictGet(call.returned, k) = DictGet(LoadCache(call.before), k)

RECURSIVE KeysAscending(_)
KeysAscending(d) ==
    Len(d) < 2 \/ (StrLess(d[1][1], d[2][1]) /\ KeysAscending(Tail(d)))

\* C4: a call with no forced identifier whose requested identifiers all have
\* a complete entry that is not stale attempts no fetch and leaves the cache
\* file as it was; the file is written only in a call that changed an entry,
\* and a written file holds every entry, its keys ascending.
C4_RerunIsNoOpAndWriteIsSorted ==
    call.kind = "call" =>
        LET old == LoadCache(call.before)
            req == Requested(call.asins)
            settled == /\ Forced(call.force_refresh) = {}
                       /\ \A i \in 1..Len(req) :
                             /\ Complete(DictGet(old, req[i]))
                             /\ ~is_entry_stale(DictGet(old, req[i]), call.started)
        IN /\ settled => (\A k \in Keys : ~Attempted(call.log, k)) /\ cacheFile = call.before
           /\ ~call.written => cacheFile = call.before
           /\ call.written =>
                 /\ \E k \in Keys : DictGet(cacheFile.content, k) # DictGet(old, k)
                 /\ cacheFile.exists
                 /\ KeysAscending(cacheFile.content)
                 /\ DictKeys(cacheFile.content) =
                        DictKeys(old) \cup {call.log[j].asin : j \in Succeeded(call.log)}
                 /\ \A k \in Keys : DictGet(cacheFile.content, k) = DictGet(call.returned, k)

\* C4 witness: after an earlier run fetched and wrote the file, a re-run of
\* requested identifiers that are all settled.
C4_Witness ==
    /\ call.kind = "call"
    /\ fetches > 0
    /\ ~call.written
    /\ Len(call.log) > 0
    /\ \A j \in 1..Len(call.log) : call.log[j].skipped
    /\ Len(call.before.content) = 2

\* --------------------------------------------- the staleness specification
\* An entry is fetched, possibly edited, and examined as time passes.
StaleInit ==
    /\ tzOffset \in TzOffsets
    /\ now = StartInstant
    /\ probe = NoProbe
    /\ CacheIdle
    /\ PureIdle
    /\ DocIdle /\ MainIdle

ProbeFetch ==
    /\ probe.kind = "none"
    /\ probe' = [kind |-> "entry",
                 entry |-> fetch_amazon_product(<<"A">>, PageOk(<<"A">>), now, tzOffset),
                 written |-> now, well_formed |-> TRUE,
                 checked |-> FALSE, stale |-> FALSE]
    /\ UNCHANGED <<cacheVars, clockVars, pureVars, docVars, mainVars>>

\* The file is edited: the timestamp is removed, garbled, or rewritten
\* without zero padding.
ProbeEdit ==
    /\ probe.kind = "entry" /\ probe.well_formed
    /\ \E ts \in {None, UNPARSABLE, [probe.entry.fetched_at EXCEPT !.padded = FALSE]} :
          probe' = [probe EXCEPT !.entry.fetched_at = ts, !.well_formed = FALSE,
                                 !.checked = FALSE]
    /\ UNCHANGED <<cacheVars, clockVars, pureVars, docVars, mainVars>>

ProbeCheck ==
    /\ probe.kind = "entry"
    /\ probe' = [probe EXCEPT !.checked = TRUE, !.stale = is_entry_stale(probe.entry, now)]
    /\ UNCHANGED <<cacheVars, clockVars, pureVars, docVars, mainVars>>

StaleTick ==
    \E hours \in {5, CACHE_MAX_AGE_HOURS - 5} :
        /\ now + hours * TicksPerHour <= StartInstant + MaxClockHours * TicksPerHour
        /\ now' = now + hours * TicksPerHour
        /\ probe' = IF probe.kind = "entry" THEN [probe EXCEPT !.checked = FALSE] ELSE probe
        /\ UNCHANGED <<cacheVars, tzOffset, pureVars, docVars, mainVars>>

StaleNext == ProbeFetch \/ ProbeEdit \/ ProbeCheck \/ StaleTick

SpecStale == StaleInit /\ [][StaleNext]_vars

\* C2: is_entry_stale at instant t2, on an entry fetch_amazon_product wrote
\* at instant t, is true exactly when t2 - t exceeds 72 hours, whatever the
\* machine's time zone; an entry whose fetched_at is missing or not in the
\* format YYYY-MM-DDTHH:MM:SS is always stale.
C2_StaleIffOlderThanWindow ==
    (probe.kind = "entry" /\ probe.checked) =>
        IF probe.well_formed
        THEN probe.stale <=> (now - probe.written > CACHE_MAX_AGE_HOURS * TicksPerHour)
        ELSE probe.stale

\* ------------------------------------------- the product builder, applied
BuildEntry(price, image) ==
    [asin |-> <<"A">>, url |-> Url(<<"A">>), title |-> <<"T">>, price |-> price,
     image |-> image, fetched_at |-> Strftime(StartInstant, 0), status_code |-> 200]

\* The caches the builder reads: no entry, or an entry with or without a
\* price and an image; one price is as a hand would write it.
BuildCaches ==
    {<<>>}
    \cup {<< <<(<<"A">>), BuildEntry(price, image)>> >> :
            price \in {NoStr, <<YEN, "1", ",", "9", "8", "0">>,
                       <<FULLWIDTH_YEN, "1", "9", "8", "0">>, <<"-">>},
            image \in {NoStr, Img(<<"A">>)}}

FallbackPrices == {NoFloat, NaN, Float(0), Float(25000), Float(5)}
FallbackImages == {NoStr, <<>>, <<"https://img/fallback">>}
Names == {NoStr, <<"N">>}

BuildInit ==
    /\ build = NoCall /\ grouping = NoCall /\ prepare = NoCall
    /\ CacheIdle /\ ClockIdle /\ StaleIdle
    /\ DocIdle /\ MainIdle

BuildProduct ==
    /\ \E name \in Names, cache \in BuildCaches, fallback_price \in FallbackPrices,
          fallback_image \in FallbackImages :
          build' = [kind |-> "call", asin |-> <<"A">>, name |-> name, cache |-> cache,
                    fallback_price |-> fallback_price, fallback_image |-> fallback_image,
                    result |-> build_product_with_fallbacks(<<"A">>, name, cache,
                                                            fallback_price, fallback_image)]
    /\ UNCHANGED <<cacheVars, clockVars, staleVars, grouping, prepare, docVars, mainVars>>

SpecBuild == BuildInit /\ [][BuildProduct]_vars

\* C5: build_product_with_fallbacks returns a Product exactly when a price is
\* resolvable (the cache entry's, else a fallback price, zero being none) and
\* an image is resolvable (the cache entry's, else the fallback); the price
\* is the normalized cache price when the entry has one, the image the cache
\* image when the entry has one; otherwise it returns None without raising.
C5_ProductIffPriceAndImage ==
    build.kind = "call" =>
        LET entry == DictGet(build.cache, build.asin)
            cache_price == IF entry = None THEN NoStr ELSE sanitize_price(entry.price)
            cache_image == IF entry = None THEN NoStr ELSE entry.image
            has_fallback_price == build.fallback_price.kind = "float"
                                     /\ build.fallback_price.tenths # 0
            price_ok == cache_price \notin {NoStr, <<>>} \/ has_fallback_price
            image_ok == cache_image \notin {NoStr, <<>>}
                           \/ build.fallback_image \notin {NoStr, <<>>}
        IN /\ build.result # RAISED
           /\ (build.result # None) <=> (price_ok /\ image_ok)
           /\ build.result \notin {None, RAISED} =>
                 /\ cache_price \notin {NoStr, <<>>} => build.result.price = cache_price
                 /\ cache_image \notin {NoStr, <<>>} => build.result.image = cache_image

\* ------------------------------------------------- group_and_sort, applied
MkProduct(asin, price_value, image) ==
    [asin |-> asin, name |-> asin, price |-> <<YEN>> \o FormatThousands(price_value),
     price_value |-> price_value, image |-> image, url |-> Url(asin)]

\* Products of two identifiers, two prices and three images, two of which
\* are variants of one picture.
GroupProducts ==
    {MkProduct(asin, price_value, image) :
        asin \in Keys, price_value \in {980, 1980},
        image \in {<<"a", "._", "x">>, <<"a", "._", "y">>, <<"b">>}}

\* The product list is drawn at the start; the one step applies the function.
GroupInit ==
    /\ grouping \in {[kind |-> "input", products |-> products,
                       flattened |-> <<>>, grouped |-> <<>>] :
                         products \in SeqsUpTo(GroupProducts, MaxProducts)}
    /\ build = NoCall /\ prepare = NoCall /\ CacheIdle /\ ClockIdle /\ StaleIdle
    /\ DocIdle /\ MainIdle

GroupAndSort ==
    /\ grouping.kind = "input"
    /\ \E r \in {group_and_sort(grouping.products)} :
          grouping' = [grouping EXCEPT !.kind = "call",
                          !.flattened = r.flattened, !.grouped = r.grouped]
    /\ UNCHANGED <<cacheVars, clockVars, staleVars, build, prepare, docVars, mainVars>>

SpecGroup == GroupInit /\ [][GroupAndSort]_vars

Count(seq, x) == Cardinality({i \in 1..Len(seq) : seq[i] = x})
Members(seq) == {seq[i] : i \in 1..Len(seq)}
StrLeq(a, b) == a = b \/ StrLess(a, b)

\* The largest price of a group, as the bound every member is under and one reaches.
IsMaxPrice(m, group) ==
    /\ \A i \in 1..Len(group) : group[i].price_value <= m
    /\ \E i \in 1..Len(group) : group[i].price_value = m

\* C10: the groups group_and_sort returns partition its input by image key;
\* each group is sorted by price descending, then identifier ascending; the
\* groups are ordered by their largest price descending, then by their first
\* member's identifier ascending; the flat list is the groups concatenated,
\* so every input product is in it as often as in the input.
C10_GroupsPartitionAndAreOrdered ==
    grouping.kind = "call" =>
        LET g == grouping.grouped
            flat == grouping.flattened
        IN /\ flat = Flatten(g)
           /\ \A p \in Members(grouping.products) \cup Members(flat) :
                 Count(flat, p) = Count(grouping.products, p)
           /\ \A i \in 1..Len(g) :
                 /\ g[i] # <<>>
                 /\ \A a, b \in 1..Len(g[i]) :
                       /\ image_key(g[i][a].image) = image_key(g[i][b].image)
                       /\ a < b =>
                             \/ g[i][a].price_value > g[i][b].price_value
                             \/ /\ g[i][a].price_value = g[i][b].price_value
                                /\ StrLeq(g[i][a].asin, g[i][b].asin)
           /\ \A i, j \in 1..Len(g) :
                 i < j =>
                    /\ image_key(g[i][1].image) # image_key(g[j][1].image)
                    /\ \E mi \in {p.price_value : p \in Members(g[i])},
                          mj \in {p.price_value : p \in Members(g[j])} :
                          /\ IsMaxPrice(mi, g[i]) /\ IsMaxPrice(mj, g[j])
                          /\ \/ mi > mj
                             \/ mi = mj /\ StrLeq(g[i][1].asin, g[j][1].asin)

\* C10 witness: three products in two groups that tie on their largest
\* price; the group of two holds two prices and was given cheapest first.
C10_Witness ==
    /\ grouping.kind = "call"
    /\ Len(grouping.products) = 3
    /\ Len(grouping.grouped) = 2
    /\ grouping.products[1].price_value < grouping.products[2].price_value
    /\ image_key(grouping.products[1].image) = image_key(grouping.products[2].image)
    /\ grouping.grouped[1][1].price_value = grouping.grouped[2][1].price_value
    /\ grouping.grouped[1][1].asin # grouping.grouped[2][1].asin

\* --------------------------------------- the document operations, applied
PageTag(page_id) == <<"<div class=\"", "page", "\"", " ", "id=\"", page_id, "\"", ">">>
Anchor(page_id) == <<"<a ", "id=\"", page_id, "\"", ">">>

\* What a document is made of, for each operation.
DivPieces == {Marker("ranking-scroll"), <<"<div>">>, <<"</div>">>, <<"\n">>, <<" ">>, <<"x">>}
GridPieces == {PageTag("memorial-page"), Anchor("memorial-page"), Marker("products-grid"),
               <<"<div>">>, <<"</div>">>}
CssPieces == {CSS_SNIPPET, <<CSS_SNIPPET[1]>>, <<CSS_MARKER>>, <<"x">>}

DocsOf(pieces) == {Flatten(doc) : doc \in SeqsUpTo(pieces, MaxDocLen)}

\* Fragment lists: none, text, nested divs over two lines, a stray close, a
\* close before its open.
FragmentLists ==
    {<<>>,
     << <<"x">> >>,
     << <<"x">>, <<"<div>", "\n", "<div>", "x", "</div>", "</div>">> >>,
     << <<"</div>">> >>,
     << <<"</div>", "<div>">> >>}

\* The operation, its arguments and the document are drawn at the start.
DocInit ==
    /\ patch \in
         {[op |-> "replace_div_inner", name |-> "ranking-scroll", occurrence |-> occurrence,
           blocks |-> blocks, original |-> html, html |-> html, before |-> html,
           first |-> None, applied |-> 0, raised |-> FALSE] :
              occurrence \in {1, 2}, blocks \in FragmentLists, html \in DocsOf(DivPieces)}
         \cup
         {[op |-> "replace_products_grid", name |-> "memorial-page", occurrence |-> 1,
           blocks |-> blocks, original |-> html, html |-> html, before |-> html,
           first |-> None, applied |-> 0, raised |-> FALSE] :
              blocks \in FragmentLists, html \in DocsOf(GridPieces)}
         \cup
         {[op |-> "ensure_css_snippet", name |-> "", occurrence |-> 1,
           blocks |-> <<>>, original |-> html, html |-> html, before |-> html,
           first |-> None, applied |-> 0, raised |-> FALSE] :
              html \in DocsOf(CssPieces)}
    /\ CacheIdle /\ ClockIdle /\ StaleIdle /\ PureIdle /\ MainIdle

\* One application of the operation to the document as it now is.
Applied(bounds, r) ==
    [patch EXCEPT !.applied = @ + 1, !.before = patch.html,
                  !.first = IF patch.applied = 0 THEN bounds ELSE @,
                  !.raised = r.raised,
                  !.html = IF r.raised THEN @ ELSE r.html]

ReplaceDivInner ==
    /\ patch.op = "replace_div_inner" /\ patch.applied < 2 /\ ~patch.raised
    /\ \E r \in {replace_div_inner(patch.html, patch.name, patch.blocks, patch.occurrence)} :
          patch' = Applied(find_div_bounds(patch.html, Marker(patch.name), patch.occurrence), r)
    /\ UNCHANGED <<cacheVars, clockVars, staleVars, pureVars, mainVars>>

ReplaceProductsGrid ==
    /\ patch.op = "replace_products_grid" /\ patch.applied < 2 /\ ~patch.raised
    /\ \E r \in {replace_products_grid(patch.html, patch.name, patch.blocks)} :
          patch' = Applied(find_grid_bounds(patch.html, patch.name), r)
    /\ UNCHANGED <<cacheVars, clockVars, staleVars, pureVars, mainVars>>

EnsureCssSnippet ==
    /\ patch.op = "ensure_css_snippet" /\ patch.applied < 2
    /\ patch' = Applied(None, [raised |-> FALSE, html |-> ensure_css_snippet(patch.html)])
    /\ UNCHANGED <<cacheVars, clockVars, staleVars, pureVars, mainVars>>

DocNext == ReplaceDivInner \/ ReplaceProductsGrid \/ EnsureCssSnippet

SpecDoc == DocInit /\ [][DocNext]_vars

\* The number of chunks of text[1..k] that open, and that close, a div.
Opens(text, k) == Cardinality({i \in 1..k : text[i] \in DivOpenChunks})
Closes(text, k) == Cardinality({i \in 1..k : text[i] = "</div>"})

\* Every close follows its open and every open is closed.
WellNested(text) ==
    /\ \A k \in 1..Len(text) : Closes(text, k) <= Opens(text, k)
    /\ Closes(text, Len(text)) = Opens(text, Len(text))

\* C7 as stated: whatever the document and the fragments, a second
\* application that follows a successful first one returns the document the
\* first one returned.
C7_SecondApplicationChangesNothing ==
    (patch.op # "none" /\ patch.applied = 2) =>
        ~patch.raised /\ patch.html = patch.before

\* C7 amended: the second application returns the document of the first for
\* ensure_css_snippet on every document, for replace_div_inner whenever the
\* div tags of the fragments are well nested, and for replace_products_grid
\* whenever they are and the page id it found stood before the grid.
C7_SecondApplicationChangesNothingForNestedFragments ==
    (/\ patch.op # "none" /\ patch.applied = 2
     /\ patch.op # "ensure_css_snippet" => WellNested(Flatten(patch.blocks))
     /\ patch.op = "replace_products_grid" =>
           Find(patch.original, <<"id=\"", patch.name, "\"">>, 0) < patch.first.position)
    => ~patch.raised /\ patch.html = patch.before

\* C7 witness: fragments holding nested divs were put into the second
\* ranking-scroll container, which changed the document, and put again.
C7_Witness ==
    /\ patch.op = "replace_div_inner" /\ patch.applied = 2 /\ patch.occurrence = 2
    /\ Len(patch.blocks) = 2
    /\ patch.html # patch.original
    /\ patch.html = patch.before


\* ------------------------------------------------------------ main, run
\* Category cells: two labels of CATEGORY_LOOKUP in Japanese, one in ASCII.
LADIES_EARRINGS ==
    <<"U+30ec", "U+30c7", "U+30a3", "U+30fc", "U+30b9", "U+30d4", "U+30a2", "U+30b9">>
MEMORIAL == <<"U+907a", "U+9aa8", "U+30cd", "U+30c3", "U+30af", "U+30ec", "U+30b9">>
ALIVA_LUXE == <<"a", "l", "i", "v", "a", "l", "u", "x", "e">>

Row(asin, name, price_excel, category, stock) ==
    [asin |-> asin, name |-> name, price_excel |-> price_excel, category |-> category,
     stock |-> stock]

\* Spreadsheet rows: a complete one; one without a price; one without a name
\* and with blanks around the identifier; one with price 0; one with a stock
\* that is no number; one without a category; one of the memorial category.
MainRows ==
    {Row(<<"A">>, <<"N">>, Float(25000), LADIES_EARRINGS, NaN),
     Row(<<"A">>, <<"<", "b">>, NaN, ALIVA_LUXE, Text(<<"3">>)),
     Row(<<" ", "B">>, NaNCell, Float(9800), LADIES_EARRINGS, Float(20)),
     Row(<<"B">>, <<"M">>, Float(0), LADIES_EARRINGS, Text(<<"1", ",", "0", "0", "0">>)),
     Row(<<"B">>, <<"M">>, Float(9800), LADIES_EARRINGS, Text(<<"a", "b", "c">>)),
     Row(<<"A">>, <<"N">>, Float(50), NaNCell, Float(10)),
     Row(<<"B">>, <<"M">>, Float(9800), MEMORIAL, Text(<<" ", "2", ".", "5">>))}

Curated(asin, name, order, image_fallback) ==
    [asin |-> asin, name |-> name, order |-> order, image_fallback |-> image_fallback]

\* assets/specified_products.json: absent, not JSON, or one of two contents.
SpecifiedFiles ==
    {[exists |-> FALSE, valid |-> FALSE, content |-> <<>>],
     [exists |-> TRUE, valid |-> FALSE, content |-> <<>>],
     [exists |-> TRUE, valid |-> TRUE, content |->
        << <<(<<"ladies_ranking">>),
             <<Curated(<<"A">>, <<"R">>, IntOrder(2), NoStr),
               Curated(<<"B", " ">>, NoStr, IntOrder(1), <<"https://img/fallback">>)>> >>,
           <<(<<"mens_all">>),
             <<Curated(<<"B">>, NoStr, NoOrder, NoStr)>> >> >>],
     [exists |-> TRUE, valid |-> TRUE, content |->
        << <<(<<"mens_ranking">>),
             <<Curated(NoStr, <<"R">>, StrOrder(<<"x">>), NoStr),
               Curated(<<"A">>, <<"R", "&">>, StrOrder(<<"7">>), NoStr)>> >>,
           <<(<<"ladies_all">>),
             <<Curated(<<"B">>, <<"S">>, NoOrder, NoStr),
               Curated(<<"A">>, NoStr, IntOrder(0), NoStr)>> >>,
           <<(<<"other">>), <<Curated(<<"A">>, NoStr, NoOrder, NoStr)>> >> >>]}

\* A page with its products grid, holding what an earlier run put there.
GridPage(page_id) ==
    PageTag(page_id) \o <<"\n", " ", " ">> \o Marker("products-grid")
        \o <<"old", "</div>", "\n", "</div>", "\n">>

\* index.html with every region main patches.
FullDoc ==
    <<"<style>", "\n", " ", " ", CSS_MARKER, "\n", "</style>", "\n">>
        \o Marker("ranking-scroll") \o <<"</div>", "\n">>
        \o <<" ", " ">> \o Marker("ranking-scroll") \o <<"\n", " ", " ", " ", " ">>
        \o Marker("ranking-item") \o <<"old", "</div>", "\n", " ", " ", "</div>", "\n">>
        \o Marker("items-grid") \o <<"</div>", "\n">>
        \o <<"\t">> \o Marker("items-grid") \o <<"old", "</div>", "\n">>
        \o GridPage("ladies-earrings-page") \o GridPage("memorial-page")
        \o GridPage("aliva-luxe-page")

\* index.html with regions missing or never closed: no page of the earrings,
\* no ranking-scroll, one items-grid, the last grid open; no memorial page
\* and the second items-grid open; nothing at all.
BrokenDocs ==
    {Marker("items-grid") \o <<"</div>", "\n">>
        \o GridPage("memorial-page")
        \o PageTag("aliva-luxe-page") \o Marker("products-grid") \o <<"old">>,
     GridPage("ladies-earrings-page")
        \o Marker("ranking-scroll") \o <<"</div>">> \o Marker("ranking-scroll") \o <<"</div>">>
        \o Marker("items-grid") \o <<"</div>">>
        \o Marker("items-grid") \o Marker("item-card") \o <<"old">>,
     <<>>}

\* product_cache.json: absent, or with an entry of A that has no price and
\* a complete entry of B, both an hour old.
MainCaches ==
    {[exists |-> FALSE, content |-> <<>>],
     [exists |-> TRUE, content |->
        << <<(<<"A">>), Earlier(<<"A">>, PageNoPrice(<<"A">>), TicksPerHour, 0)>>,
           <<(<<"B">>), Earlier(<<"B">>, PageOk(<<"B">>), TicksPerHour, 0)>> >>]}

\* The site answers for both identifiers, or is unavailable for one.
MainSites ==
    {SiteUp,
     [k \in Keys |-> IF k = <<"A">> THEN PageUnavailable ELSE PageOk(k)],
     [k \in Keys |-> IF k = <<"B">> THEN PageUnavailable ELSE PageOk(k)]}

OutputFiles ==
    {"product_records.json", "compiled_products.json", "grouped_products.json",
     "price_list.json", "price_status.json", "index.html"}

\* A run before main starts: the files it will read.
Ready(rows, specified, index_html) ==
    [status |-> "ready", error |-> "", rows |-> rows, specified |-> specified,
     index_html |-> index_html, cache |-> <<>>, written |-> {}, records |-> <<>>,
     compiled |-> <<>>, grouped |-> <<>>, price_lists |-> <<>>, price_status |-> <<>>,
     prepared |-> <<>>, log |-> <<>>, html |-> index_html]

\* The files a run finds: the full document with a cache whose entries are
\* fresh (the site is not asked) or with no cache and every site, or a broken
\* document with no cache and the site up.
MainInit ==
    /\ \/ /\ run \in {Ready(rows, specified, FullDoc) :
                        rows \in SeqsUpTo(MainRows, MaxRows), specified \in SpecifiedFiles}
          /\ \/ cacheFile \in MainCaches /\ cacheFile.exists /\ site = SiteUp
             \/ cacheFile \in MainCaches /\ ~cacheFile.exists /\ site \in MainSites
       \/ /\ run \in {Ready(rows, specified, index_html) :
                        rows \in SeqsUpTo(MainRows, MaxRows),
                        specified \in {file \in SpecifiedFiles : file.valid},
                        index_html \in BrokenDocs}
          /\ cacheFile = [exists |-> FALSE, content |-> <<>>]
          /\ site = SiteUp
    /\ fetches = 0 /\ call = NoCall
    /\ ClockIdle /\ StaleIdle /\ PureIdle /\ DocIdle

\* main ended by an exception: only the raw records (and the cache) were written.
Aborted(error, cache) ==
    [run EXCEPT !.status = "raised", !.error = error, !.cache = cache,
                !.written = {"product_records.json"}, !.records = Records(run.rows)]

\* One run of main.  A set is iterated in some order.
Main ==
    /\ run.status = "ready"
    /\ \E specified_raw \in {load_specified_products(run.specified)},
          valid_entries \in {ValidEntries(run.rows)} :
        \E order \in Orders(FetchTargets(valid_entries, specified_raw)) :
        \E fetched \in {update_product_cache(order, {}, cacheFile, site, tzOffset, now)} :
        \E built \in {Compile(valid_entries, fetched.returned, <<>>)},
           specified \in {prepare_specified_products(specified_raw, fetched.returned)} :
        \E out \in {CategoryOutputs(CATEGORY_META, built.compiled, NoOutputs)} :
        \E grids \in {PatchGrids(CATEGORY_META, out.rendered_cards, run.index_html, <<>>)} :
        \E curated \in {IF specified.raised THEN grids
                        ELSE PatchCurated(CuratedRegions, specified.prepared,
                                          grids.html, grids.log)} :
          /\ cacheFile' = fetched.file
          /\ now' = fetched.now
          /\ run' =
               IF fetched.raised \/ built.raised
               THEN Aborted("ValueError", fetched.returned)
               ELSE IF specified.raised THEN Aborted("TypeError", fetched.returned)
               ELSE IF out.raised THEN Aborted("AttributeError", fetched.returned)
               ELSE [run EXCEPT
                       !.status = "done",
                       !.cache = fetched.returned,
                       !.written = OutputFiles,
                       !.records = Records(run.rows),
                       !.compiled = out.compiled_serialisable,
                       !.grouped = out.grouped_serialisable,
                       !.price_lists = out.price_lists,
                       !.price_status = SpecifiedStatus(specified.prepared, out.price_status),
                       !.prepared = specified.prepared,
                       !.log = curated.log,
                       !.html = ensure_css_snippet(curated.html)]
    /\ UNCHANGED <<tzOffset, site, fetches, call, staleVars, pureVars, docVars>>

SpecMain == MainInit /\ [][Main]_vars

\* ---- what a file of the run holds
\* text holds sub as a run of chunks.
Contains(text, sub) ==
    \E i \in 0..(Len(text) - Len(sub)) : SubSeq(text, i + 1, i + Len(sub)) = sub

InRecords(asin) == \E i \in 1..Len(run.records) : Contains(run.records[i].asin, asin)

InCompiled(asin) ==
    \E k \in 1..Len(run.compiled) :
        \E i \in 1..Len(run.compiled[k][2]) : run.compiled[k][2][i].asin = asin

InGrouped(asin) ==
    \E k \in 1..Len(run.grouped) :
        \E g \in 1..Len(run.grouped[k][2]) :
            \E i \in 1..Len(run.grouped[k][2][g]) : run.grouped[k][2][g][i].asin = asin

InPriceList(asin) ==
    \E k \in 1..Len(run.price_lists) :
        \E i \in 1..Len(run.price_lists[k][2]) : Contains(run.price_lists[k][2][i], asin)

InPriceStatus(asin) ==
    \E k \in 1..Len(run.price_status) :
        \E i \in 1..Len(run.price_status[k][2]) : run.price_status[k][2][i].asin = asin

InHtml(asin) == Contains(run.html, asin)

\* A card the run put into the document names the identifier.
InInjected(asin) ==
    \E s \in 1..Len(run.log) :
        /\ run.log[s].located
        /\ \E c \in 1..Len(run.log[s].cards) : Contains(run.log[s].cards[c], asin)

\* The run is over and the identifier has no cache entry, no row gives it a
\* price and no curated entry gives it an image.
Unresolvable(asin) ==
    /\ run.status \in {"done", "raised"}
    /\ asin \notin DictKeys(run.cache)
    /\ \A i \in 1..Len(run.rows) :
          Strip(run.rows[i].asin) = asin =>
              ~(run.rows[i].price_excel.kind = "float" /\ run.rows[i].price_excel.tenths # 0)
    /\ \A k \in 1..Len(load_specified_products(run.specified)) :
          \A e \in Members(load_specified_products(run.specified)[k][2]) :
              (e.asin # NoStr /\ Strip(e.asin) = asin) => ~Truthy(e.image_fallback)

\* C6 as stated: after a run of main, an identifier without a cache entry
\* and without a fallback price or image is in none of the files the run
\* wrote, the raw records among them.
C6_UnresolvableIdentifierInNoOutput ==
    \A asin \in Keys :
        Unresolvable(asin) =>
            /\ ~InRecords(asin) /\ ~InCompiled(asin) /\ ~InGrouped(asin)
            /\ ~InPriceList(asin) /\ ~InPriceStatus(asin) /\ ~InHtml(asin)

\* C6 amended: such an identifier is in none of the compiled list, the
\* grouped list, the price list and the price status list, and in no card
\* the run put into the document; the raw records hold every row.
C6_UnresolvableIdentifierInNoDerivedOutput ==
    \A asin \in Keys :
        Unresolvable(asin) =>
            /\ ~InCompiled(asin) /\ ~InGrouped(asin)
            /\ ~InPriceList(asin) /\ ~InPriceStatus(asin) /\ ~InInjected(asin)
            /\ \A i \in 1..Len(run.rows) : run.records[i].asin = run.rows[i].asin

\* C6 witness: a completed run in which B, a row with a category and a stock,
\* could not be resolved, while a card of another product went into the page.
C6_Witness ==
    /\ run.status = "done"
    /\ Unresolvable(<<"B">>)
    /\ \E i \in 1..Len(ValidEntries(run.rows)) : ValidEntries(run.rows)[i].asin = <<"B">>
    /\ InRecords(<<"B">>)
    /\ InCompiled(<<"A">>)
    /\ InInjected(<<"A">>)

\* ---- the regions of the document, by counting
OpensIn(text, a, b) == Cardinality({i \in a..b : text[i] \in DivOpenChunks})
ClosesIn(text, a, b) == Cardinality({i \in a..b : text[i] = "</div>"})

\* After the first `from` chunks some close has one more close than open before it.
ClosedAfter(text, from) ==
    \E e \in (from + 1)..Len(text) :
        text[e] = "</div>" /\ ClosesIn(text, from + 1, e) = OpensIn(text, from + 1, e) + 1

StartsOf(text, sub) == {i \in 0..(Len(text) - Len(sub)) : Slice(text, i, i + Len(sub)) = sub}

\* The region has its marker (for a grid: the page id, a div before it and a
\* grid marker from that div on) and the div the marker opens is closed.
Locatable(region, text) ==
    IF region.kind = "div"
    THEN \E p \in StartsOf(text, Marker(region.name)) :
            /\ Cardinality({q \in StartsOf(text, Marker(region.name)) : q < p})
                  = region.occurrence - 1
            /\ ClosedAfter(text, p + Len(Marker(region.name)))
    ELSE \E id \in StartsOf(text, <<"id=\"", region.name, "\"">>) :
            /\ \A other \in StartsOf(text, <<"id=\"", region.name, "\"">>) : id <= other
            /\ \E d \in 0..(id - 1) :
                  /\ text[d + 1] \in DivOpenChunks
                  /\ \A later \in (d + 1)..(id - 1) : text[later + 1] \notin DivOpenChunks
                  /\ \E g \in StartsOf(text, Marker("products-grid")) :
                        /\ g >= d
                        /\ \A h \in StartsOf(text, Marker("products-grid")) : h >= d => g <= h
                        /\ ClosedAfter(text, g + Len(Marker("products-grid")))

\* The regions a completed run has cards for.
RegionsWithCards ==
    {[kind |-> "grid", name |-> DictGet(CATEGORY_META, key).page, occurrence |-> 1] :
        key \in DictKeys(run.compiled)}
    \cup {[kind |-> "div", name |-> CuratedRegions[i].name,
           occurrence |-> CuratedRegions[i].occurrence] :
             i \in {j \in 1..Len(CuratedRegions) :
                      CuratedRegions[j].section \in DictKeys(run.prepared)}}

\* C8: a region is located exactly when its marker is there and its div is
\* closed; main tries every region it has cards for, each on the text the
\* step before left; a region that is not located leaves the text as it
\* was, a located one gets its cards, and the run completes.
C8_FailedRegionIsSkippedOthersApplied ==
    run.status = "done" =>
        /\ {run.log[i].region : i \in 1..Len(run.log)} = RegionsWithCards
        /\ \A i \in 1..Len(run.log) :
              LET step == run.log[i]
              IN /\ step.before = IF i = 1 THEN run.index_html ELSE run.log[i - 1].after
                 /\ step.located <=> Locatable(step.region, step.before)
                 /\ ~step.located => step.after = step.before
                 /\ step.located =>
                       \A c \in 1..Len(step.cards) :
                           Contains(step.after, SplitLines(step.cards[c])[1])
        /\ \A c \in 1..Len(run.log) :
              run.log[c].located /\ (\A later \in (c + 1)..Len(run.log) : ~run.log[later].located)
                  => Contains(run.html, SplitLines(run.log[c].cards[1])[1])
        /\ "index.html" \in run.written

\* C8 witness: a completed run in which a grid and a container could not be
\* located and, after them, a grid and a container were, and got new text.
C8_Witness ==
    /\ run.status = "done"
    /\ \E i, j \in 1..Len(run.log) :
          /\ i < j
          /\ run.log[i].region.kind = "grid" /\ ~run.log[i].located
          /\ run.log[j].region.kind = "grid" /\ run.log[j].located
          /\ run.log[j].after # run.log[j].before
    /\ \E i, j \in 1..Len(run.log) :
          /\ i < j
          /\ run.log[i].region.kind = "div" /\ ~run.log[i].located
          /\ run.log[j].region.kind = "div" /\ run.log[j].located
          /\ run.log[j].after # run.log[j].before

\* C9: a run whose rows all have a name ends without raising, whatever is
\* missing: the price of a row, a cache entry or its price, an image, a
\* number in the stock cell, an answer of the site.
C9_MainRunsToCompletion ==
    (/\ run.status \in {"done", "raised"}
     /\ \A i \in 1..Len(run.rows) : run.rows[i].name # NaNCell)
    => run.status = "done"

\* ------------------------------------- prepare_specified_products, applied
\* The cache a curated section is built from: complete entries of A and B,
\* or an entry of A without a price beside a complete entry of B.
PrepareCaches ==
    {<< <<(<<"A">>), Earlier(<<"A">>, PageOk(<<"A">>), TicksPerHour, 0)>>,
        <<(<<"B">>), Earlier(<<"B">>, PageOk(<<"B">>), TicksPerHour, 0)>> >>,
     << <<(<<"A">>), Earlier(<<"A">>, PageNoPrice(<<"A">>), TicksPerHour, 0)>>,
        <<(<<"B">>), Earlier(<<"B">>, PageOk(<<"B">>), TicksPerHour, 0)>> >>}

\* The "order" of an entry: absent, 1, 2, or a str that is no number.
PrepareOrders == {NoOrder, IntOrder(1), IntOrder(2), StrOrder(<<"x">>)}

\* The sections: the entry at place i is named i, so that what is emitted
\* can be told apart.
PrepareSections ==
    UNION {{[i \in 1..n |-> Curated(pick[i][1], <<DigitChar(i)>>, pick[i][2], NoStr)] :
              pick \in [1..n -> {<<"A">>, <<"B">>} \X PrepareOrders]} :
           n \in 0..MaxEntries}

\* The section and the cache are drawn at the start; the one step applies the function.
PrepareInit ==
    /\ prepare \in {[kind |-> "input", entries |-> entries, cache |-> cache,
                      raised |-> FALSE, section |-> <<>>] :
                        entries \in PrepareSections, cache \in PrepareCaches}
    /\ build = NoCall /\ grouping = NoCall /\ CacheIdle /\ ClockIdle /\ StaleIdle
    /\ DocIdle /\ MainIdle

PrepareSpecifiedProducts ==
    /\ prepare.kind = "input"
    /\ \E r \in {prepare_specified_products(<< <<(<<"ladies_ranking">>), prepare.entries>> >>,
                                            prepare.cache)} :
          prepare' = [prepare EXCEPT
                        !.kind = "call",
                        !.raised = r.raised,
                        !.section = IF r.raised \/ r.prepared = <<>> THEN <<>>
                                    ELSE r.prepared[1][2]]
    /\ UNCHANGED <<cacheVars, clockVars, staleVars, build, grouping, docVars, mainVars>>

SpecPrepare == PrepareInit /\ [][PrepareSpecifiedProducts]_vars

\* The entry of the section an emitted item was made from.
EntryOf(item) ==
    prepare.entries[CHOOSE i \in 1..Len(prepare.entries) : <<DigitChar(i)>> = item.display_name]

HasExplicitOrder(entry) == entry.order.kind = "int"

\* C11: prepare_specified_products does not raise; the entries it emits that
\* have an integer order come in ascending order, and an entry whose order
\* is missing or no integer comes after every entry that has one.
C11_ExplicitOrderAscendingOthersLast ==
    prepare.kind = "call" =>
        /\ ~prepare.raised
        /\ \A i, j \in 1..Len(prepare.section) :
              i < j =>
                 LET a == EntryOf(prepare.section[i])
                     b == EntryOf(prepare.section[j])
                 IN /\ (HasExplicitOrder(a) /\ HasExplicitOrder(b))
                          => a.order.value <= b.order.value
                    /\ ~(~HasExplicitOrder(a) /\ HasExplicitOrder(b))

\* ------------------------------- group_and_sort on a list and a permutation
\* Products that tie: two of one picture with one price and one identifier,
\* one of another picture with that price and identifier; and products that
\* differ in price or identifier.
PermuteProducts ==
    {MkProduct(<<"A">>, 1980, <<"a", "._", "x">>), MkProduct(<<"A">>, 1980, <<"a", "._", "y">>),
     MkProduct(<<"A">>, 1980, <<"b">>), MkProduct(<<"B">>, 1980, <<"b">>),
     MkProduct(<<"B">>, 980, <<"a", "._", "x">>), MkProduct(<<"A">>, 980, <<"b">>)}

Reorderings(n) == {f \in [1..n -> 1..n] : \A i, j \in 1..n : f[i] = f[j] => i = j}

\* A product list and a permutation of it are drawn at the start; the one
\* step applies the function to both.
PermuteInit ==
    /\ grouping \in UNION {{[kind |-> "pair", products |-> products,
                              permuted |-> [i \in 1..Len(products) |-> products[f[i]]],
                              flattened |-> <<>>, grouped |-> <<>>,
                              flattened_permuted |-> <<>>, grouped_permuted |-> <<>>] :
                                f \in Reorderings(Len(products))} :
                           products \in SeqsUpTo(PermuteProducts, MaxProducts)}
    /\ build = NoCall /\ prepare = NoCall /\ CacheIdle /\ ClockIdle /\ StaleIdle
    /\ DocIdle /\ MainIdle

GroupAndSortBoth ==
    /\ grouping.kind = "pair"
    /\ \E r \in {group_and_sort(grouping.products)},
          s \in {group_and_sort(grouping.permuted)} :
          grouping' = [grouping EXCEPT !.kind = "pair-call",
                          !.flattened = r.flattened, !.grouped = r.grouped,
                          !.flattened_permuted = s.flattened,
                          !.grouped_permuted = s.grouped]
    /\ UNCHANGED <<cacheVars, clockVars, staleVars, build, prepare, docVars, mainVars>>

SpecPermute == PermuteInit /\ [][GroupAndSortBoth]_vars

\* Two different products of one picture have the same price and identifier.
MembersTie(products) ==
    \E p, q \in Members(products) :
        /\ p # q
        /\ image_key(p.image) = image_key(q.image)
        /\ p.price_value = q.price_value /\ p.asin = q.asin

\* The product of a picture that no other of that picture sorts before.
Leader(products, key) ==
    LET members == {p \in Members(products) : image_key(p.image) = key}
    IN CHOOSE p \in members :
          \A q \in members :
              \/ p.price_value > q.price_value
              \/ p.price_value = q.price_value /\ StrLeq(p.asin, q.asin)

\* Two pictures have the same largest price and the same first identifier.
GroupsTie(products) ==
    \E p, q \in Members(products) :
        /\ image_key(p.image) # image_key(q.image)
        /\ Leader(products, image_key(p.image)).price_value
              = Leader(products, image_key(q.image)).price_value
        /\ Leader(products, image_key(p.image)).asin
              = Leader(products, image_key(q.image)).asin

\* C12 as stated: group_and_sort returns the same flat list and the same
\* groups for a list and for any permutation of it, ties included.
C12_IndependentOfInputOrder ==
    grouping.kind = "pair-call" =>
        /\ grouping.flattened_permuted = grouping.flattened
        /\ grouping.grouped_permuted = grouping.grouped

\* C12 amended: group_and_sort returns the same flat list and the same groups
\* for a list and for any permutation of it, when no two different products
\* of one group tie on both price and identifier and no two groups tie on
\* both largest price and first identifier.
C12_IndependentOfInputOrderWhereKeysDecide ==
    (/\ grouping.kind = "pair-call"
     /\ ~MembersTie(grouping.products)
     /\ ~GroupsTie(grouping.products))
    => /\ grouping.flattened_permuted = grouping.flattened
       /\ grouping.grouped_permuted = grouping.grouped

\* C12 witness: three products given in two different orders, in two groups
\* that have the same largest price and different first identifiers, one
\* group of two; no tie is left to the input order.
C12_Witness ==
    /\ grouping.kind = "pair-call"
    /\ Len(grouping.products) = 3
    /\ grouping.permuted # grouping.products
    /\ ~MembersTie(grouping.products) /\ ~GroupsTie(grouping.products)
    /\ Len(grouping.grouped) = 2
    /\ grouping.grouped[1][1].price_value = grouping.grouped[2][1].price_value
    /\ grouping.grouped[1][1].asin # grouping.grouped[2][1].asin
    /\ grouping.grouped_permuted = grouping.grouped

\* ------------------------------------------------- the locators, applied
\* Texts whose divs are balanced, of at most n divs; a div is plain or of
\* the class given.
RECURSIVE Balanced(_, _)
Balanced(n, class_name) ==
    IF n = 0 THEN {<<>>}
    ELSE Balanced(n - 1, class_name)
         \cup UNION {{open \o inside \o <<"</div>">> \o after :
                        open \in {<<"<div>">>, Marker(class_name)},
                        inside \in Balanced(i, class_name),
                        after \in Balanced(n - 1 - i, class_name)} :
                     i \in 0..(n - 1)}

\* Balanced documents with a ranking-scroll container that holds up to
\* MaxInnerDivs divs, plain or ranking-scroll, after and before up to one div.
BoundsDivDocs ==
    {before \o Marker("ranking-scroll") \o inside \o <<"</div>">> \o after :
        before \in Balanced(1, "ranking-scroll"),
        inside \in Balanced(MaxInnerDivs, "ranking-scroll"),
        after \in Balanced(1, "ranking-scroll")}

\* Balanced documents with a page whose grid holds up to MaxInnerDivs divs,
\* plain or products-grid; a div may stand between the page tag and the grid.
BoundsGridDocs ==
    {PageTag("memorial-page") \o between \o Marker("products-grid") \o inside
        \o <<"</div>", "</div>">> \o after :
        between \in {<<>>, <<"<div>", "</div>">>},
        inside \in Balanced(MaxInnerDivs, "products-grid"),
        after \in Balanced(1, "products-grid")}

\* The locator, its arguments and the document are drawn at the start.
BoundsInit ==
    /\ patch \in
         {[op |-> "find_div_bounds", name |-> "ranking-scroll", occurrence |-> occurrence,
           html |-> html, applied |-> 0, bounds |-> None] :
              occurrence \in {1, 2}, html \in BoundsDivDocs}
         \cup
         {[op |-> "find_grid_bounds", name |-> "memorial-page", occurrence |-> 1,
           html |-> html, applied |-> 0, bounds |-> None] :
              html \in BoundsGridDocs}
    /\ CacheIdle /\ ClockIdle /\ StaleIdle /\ PureIdle /\ MainIdle

FindDivBounds ==
    /\ patch.op = "find_div_bounds" /\ patch.applied = 0
    /\ \E r \in {find_div_bounds(patch.html, Marker(patch.name), patch.occurrence)} :
          patch' = [patch EXCEPT !.applied = 1, !.bounds = r]
    /\ UNCHANGED <<cacheVars, clockVars, staleVars, pureVars, mainVars>>

FindGridBounds ==
    /\ patch.op = "find_grid_bounds" /\ patch.applied = 0
    /\ \E r \in {find_grid_bounds(patch.html, patch.name)} :
          patch' = [patch EXCEPT !.applied = 1, !.bounds = r]
    /\ UNCHANGED <<cacheVars, clockVars, staleVars, pureVars, mainVars>>

BoundsNext == FindDivBounds \/ FindGridBounds

SpecBounds == BoundsInit /\ [][BoundsNext]_vars

\* The class of the div a locator looks for.
TargetClass == IF patch.op = "find_div_bounds" THEN patch.name ELSE "products-grid"

\* C13: in a document whose divs are balanced, a locator that finds its
\* marker returns as end the position just after the close that matches the
\* opening tag it located: the chunk before the end is a close, and between
\* the opening tag and that close every div opened is closed and every close
\* follows its open, whatever the class of the divs inside.
C13_EndIsAfterMatchingClose ==
    (/\ patch.op \in {"find_div_bounds", "find_grid_bounds"} /\ patch.applied = 1
     /\ WellNested(patch.html))
    => LET b == patch.bounds
       IN /\ b.raised <=>
                Cardinality(StartsOf(patch.html, Marker(TargetClass))) < patch.occurrence
          /\ ~b.raised =>
                /\ Slice(patch.html, b.position, b.content_start) = Marker(TargetClass)
                /\ b.end <= Len(patch.html)
                /\ patch.html[b.end] = "</div>"
                /\ WellNested(Slice(patch.html, b.content_start, b.end - 1))

\* C13 witness: a container that holds three divs of its own class, one in
\* the other, was located; its end is after all three inner closes.
C13_Witness ==
    /\ patch.op = "find_div_bounds" /\ patch.applied = 1 /\ patch.occurrence = 1
    /\ ~patch.bounds.raised
    /\ Len(patch.html) >= patch.bounds.content_start + 16
    /\ Slice(patch.html, patch.bounds.content_start, patch.bounds.content_start + 12)
          = Marker("ranking-scroll") \o Marker("ranking-scroll") \o Marker("ranking-scroll")
    /\ patch.bounds.end = patch.bounds.content_start + 16
    /\ Find(patch.html, <<"</div>">>, patch.bounds.content_start) + 1 < patch.bounds.end

\* ---- the indentation of a replaced region (SpecDoc)
\* Where the line that holds the position begins.
LineStart(text, position) ==
    IF \E i \in 1..position : text[i] = "\n"
    THEN CHOOSE i \in 1..position :
            text[i] = "\n" /\ \A j \in (i + 1)..position : text[j] # "\n"
    ELSE 0

\* The blanks the line of the position begins with.
OpeningIndent(text, position) ==
    LET start == LineStart(text, position)
        width == CHOOSE k \in 0..(position - start) :
                    /\ \A i \in 1..k : text[start + i] \in {" ", "\t"}
                    /\ k = position - start \/ text[start + k + 1] \notin {" ", "\t"}
    IN Slice(text, start, start + width)

\* The lines of the fragments, each after the indentation and two blanks.
InjectedLines(blocks, indent) ==
    IF blocks = <<>> THEN <<>>
    ELSE JoinLines(IndentedLines(blocks, indent \o <<" ", " ">>)) \o <<"\n">>

\* C14: a replacement that finds its region returns the document with the
\* text up to the end of the opening tag and the text after the closing tag
\* as they were, and between them a line break, every line of the fragments
\* after the indentation of the opening tag's line and two blanks, and the
\* closing tag on a line of its own after that indentation; with no
\* fragments, the line break, the indentation and the closing tag.
C14_ReplacementKeepsTagsAndIndentation ==
    (/\ patch.op \in {"replace_div_inner", "replace_products_grid"}
     /\ patch.applied = 1 /\ ~patch.raised)
    => LET b == patch.first
           indent == OpeningIndent(patch.original, b.position)
       IN patch.html
             = Slice(patch.original, 0, b.content_start)
                  \o <<"\n">> \o InjectedLines(patch.blocks, indent) \o indent \o <<"</div>">>
                  \o Slice(patch.original, b.end, Len(patch.original))


====
